---- MODULE Spec2Model ----
(***************************************************************************)
(* A model of the file-system repository (package fsrepo) of go-ipfs: one  *)
(* repository path on disk, shared by several processes, each process      *)
(* running several threads that call Init, open, Close, Config, SetConfig, *)
(* GetConfigKey and SetConfigKey.  Every action is one step of a call: a   *)
(* step holds at most one access to the shared disk or to the file lock,   *)
(* together with the process-local computation that follows it.            *)
(***************************************************************************)
EXTENDS Integers, Sequences, FiniteSets, TLC

\* ------------------------------------------------------------- bounds
NumThreads == 3
MaxHandles == 2

\* two processes share the repository path
Procs == {1, 2}
Threads == 1..NumThreads
\* thread 2 is the thread of process 2; every other thread runs in process 1
ProcOf(t) == IF t = 2 THEN 2 ELSE 1

\* ------------------------------------------------ values and config maps
\* A Go string is a sequence of characters.
Digits == {"0", "7"}
\* a JSON value of the persisted config: a string, a number or a nested map
StrV(s) == [kind |-> "str", val |-> s]
IntV(s) == [kind |-> "int", val |-> s]
MapV(f) == [kind |-> "map", val |-> f]
EmptyMap == [k \in {} |-> StrV(<< >>)]
IsMap(v) == v.kind = "map"

\* strconv.Atoi succeeds on a non-empty string of digits
AtoiOk(s) == Len(s) > 0 /\ \A i \in 1..Len(s) : s[i] \in Digits

\* SetConfigKey's conversion of its value: a string that parses as an
\* integer is stored as that integer
ConvertValue(value) ==
  IF value.kind = "str" /\ AtoiOk(value.val) THEN IntV(value.val) ELSE value

\* version number that the code expects to see
RepoVersion == <<"2">>

\* the config struct known to this version of the code: one section,
\* Addresses, with one string field, API
MkConfig(api) == [Addresses |-> [API |-> api]]
ZeroConfig == MkConfig(<< >>)

\* config.ToMap: the struct as a generic map; every known section is present
ToMap(conf) == [k \in {"Addresses"} |-> MapV([j \in {"API"} |-> StrV(conf.Addresses.API)])]

\* config.FromMap: decode a generic map into the struct; unknown fields are
\* dropped, a missing field keeps its zero value, a field of the wrong type
\* is an error
FromMapOk(m) ==
  \/ "Addresses" \notin DOMAIN m
  \/ /\ IsMap(m["Addresses"])
     /\ \/ "API" \notin DOMAIN m["Addresses"].val
        \/ m["Addresses"].val["API"].kind = "str"

FromMap(m) ==
  IF "Addresses" \in DOMAIN m /\ IsMap(m["Addresses"])
       /\ "API" \in DOMAIN m["Addresses"].val
       /\ m["Addresses"].val["API"].kind = "str"
  THEN MkConfig(m["Addresses"].val["API"].val)
  ELSE ZeroConfig

\* f with key k bound to v
Bind(f, k, v) == [j \in DOMAIN f \cup {k} |-> IF j = k THEN v ELSE f[j]]

\* common.MapSetKV: walk the key's parts through nested maps, creating a map
\* where a part is missing, and set the last part; it fails, changing
\* nothing, where a part on the way is bound to something that is not a map
RECURSIVE MapSetKVOk(_, _)
MapSetKVOk(f, path) ==
  IF Len(path) = 1 THEN TRUE
  ELSE IF path[1] \notin DOMAIN f THEN TRUE
  ELSE IsMap(f[path[1]]) /\ MapSetKVOk(f[path[1]].val, Tail(path))

RECURSIVE MapSetKV(_, _, _)
MapSetKV(f, path, value) ==
  IF Len(path) = 1 THEN Bind(f, path[1], value)
  ELSE LET child == IF path[1] \in DOMAIN f THEN f[path[1]].val ELSE EmptyMap
       IN  Bind(f, path[1], MapV(MapSetKV(child, Tail(path), value)))

\* common.MapGetKV: the value at a key path, when there is one
RECURSIVE MapGetKVOk(_, _)
MapGetKVOk(f, path) ==
  /\ path[1] \in DOMAIN f
  /\ \/ Len(path) = 1
     \/ IsMap(f[path[1]]) /\ MapGetKVOk(f[path[1]].val, Tail(path))

RECURSIVE MapGetKV(_, _)
MapGetKV(f, path) ==
  IF Len(path) = 1 THEN f[path[1]] ELSE MapGetKV(f[path[1]].val, Tail(path))

\* the loop of setConfigUnsynced: every top-level entry of m replaces the
\* entry of mapconf with the same key
Overlay(mapconf, m) ==
  [k \in DOMAIN mapconf \cup DOMAIN m |-> IF k \in DOMAIN m THEN m[k] ELSE mapconf[k]]

\* ------------------------------------------------------------ the inputs
\* the configs callers pass to Init and SetConfig
Configs == {MkConfig(<<"a">>), MkConfig(<<"b">>)}
\* the key paths callers pass to GetConfigKey and SetConfigKey, as the
\* parts strings.Split(key, ".") yields
KeyPaths == {<<"Addresses", "API">>, <<"Addresses", "Future">>, <<"Extra">>}
\* the values callers pass to SetConfigKey
Values == {StrV(<<"b">>), StrV(<<"7">>)}

\* the version marker files an existing repository may hold
OldMarkers == {<<"1", "\n">>, <<"2", "\n">>, <<"3">>}
\* the config file of a repository that was written by another version of
\* the program: it holds fields this version does not know
ForeignConfigFile ==
  [k \in {"Addresses", "Extra"} |->
     IF k = "Addresses"
     THEN MapV([j \in {"API", "Future"} |-> StrV(<<"a">>)])
     ELSE StrV(<<"x">>)]

VARIABLES
  configFile,   \* the config file: << >> when missing, else <<map>>
  versionFile,  \* the version marker: << >> when missing, else <<text>>
  dirs,         \* which of the directories datastore, blocks, logs exist
  fileLock,     \* the process holding the repo.lock file lock, 0 when free
  packageLock,  \* per process: the thread holding packageLock, 0 when free
  handles,      \* the FSRepo objects that open has returned, in order
  leaked,       \* leveldb stores left open by a failed open
  pc,           \* per thread: the step of its current call, "idle" between
  ret,          \* the return made in the last step: thread, call, handle, result
  hnd,          \* per thread: the handle the current call is made on
  key,          \* per thread: the key path of the current SetConfigKey
  r,            \* per thread: the FSRepo under construction in open
  mapconf,      \* per thread: the local mapconf of a config update
  updated,      \* per thread: the config a config update installs
  initOK,       \* an Init call on the path has returned success
  before        \* per thread: the config file and the config of the handle when its
                \* SetConfig or SetConfigKey began

repoVars == <<configFile, versionFile, dirs, fileLock, packageLock, handles, leaked,
              pc, ret, hnd, key, r, mapconf, updated, initOK,
              before>>

disk == <<configFile, versionFile, dirs>>
locals == <<hnd, key, r, mapconf, updated, before>>

\* ------------------------------------------------- the blockstore's state
VARIABLES
  store,        \* the datastore: a function from datastore keys to values
  stored,       \* the blocks that a Put stored, with no DeleteBlock of the key since
  bpc,          \* per thread: the step of its current Put, "idle" between
  block,        \* per thread: the block of the current Put
  exists,       \* per thread: what bs.datastore.Has answered in the current Put
  hasErr,       \* per thread: the error bs.datastore.Has gave the current Put
  bsRet,        \* the return a blockstore call made in the last step
  ctxDone,      \* the context passed to AllKeysChan is cancelled
  leftAtCancel, \* the stored keys that were not yet emitted when it was cancelled
  pending,      \* the query's results that it has not yet offered
  resNext,      \* what res.Next() holds: nothing, an entry, or closed
  queryError,   \* a result of the query carried an error
  queryClosed,  \* res.Process().Close() has run
  producer,     \* the step of the producer goroutine of AllKeysChan
  kOut,         \* the producer's k, the key it is about to send
  outputClosed, \* close(output) has run
  receiving,    \* the consumer is waiting to receive from output
  received      \* the keys the consumer received from output, in order

pointVars == <<store, stored, bpc, block, exists, hasErr, bsRet>>
keysVars == <<ctxDone, leftAtCancel, pending, resNext, queryError, queryClosed,
              producer, kOut, outputClosed, receiving, received>>
blockstoreVars == <<pointVars, keysVars>>

\* --------------------------------------------- the exchange message's state
VARIABLES
  msg,          \* the live message: its want-list and its blocks, as lists
  lastAdded,    \* per key that AddEntry was called with: the last priority given
  addedBlocks,  \* the keys of the blocks that AddBlock was called with
  readded,      \* an AddEntry, an AddBlock was called with a key the message held
  wire,         \* the frame that ToNet wrote: << >> when none, else <<frame>>
  copied,       \* the message that FromNet read: << >> when none, else <<message>>
  snapshot,     \* the structured message last obtained: << >> when none, else <<pbm>>
  built,        \* the message built from the structured one: << >> or <<message>>
  msgRet        \* the result of the last ToNet or FromNet

messageVars == <<msg, lastAdded, addedBlocks, readded, wire, copied, snapshot, built, msgRet>>

\* New(): the empty message
New == [wantlist |-> << >>, blocks |-> << >>]

\* no message is under construction
MessageIdle ==
  /\ msg = New
  /\ lastAdded = [kk \in {} |-> 0]
  /\ addedBlocks = {}
  /\ readded = [entry |-> FALSE, block |-> FALSE]
  /\ wire = << >>
  /\ copied = << >>
  /\ snapshot = << >>
  /\ built = << >>
  /\ msgRet = "none"

\* ------------------------------------------------ the composed datastore
VARIABLES
  backing,      \* per backing store of the mount: its keys and their values
  mountRet      \* the last point operation on the mount: call, key, result

mountVars == <<backing, mountRet>>

\* ------------------------------------------------------ the HTTP gateway
VARIABLES
  daemon,       \* the daemon: its writable option, its config, whether it runs
  served        \* the last request: the handler it came to, its method, what
                \* ServeHTTP called and the status it wrote

gatewayVars == <<daemon, served>>

\* ------------------------------------------------------ the get command
VARIABLES
  getReq,       \* the options of the get request: compress, compression-level, archive
  getPc,        \* the step of the get command
  getRet,       \* what getCompressOptions returned last: level and error
  compression,  \* the compression that get was called with
  outPath       \* the suffixes PostRun added to the output path

getVars == <<getReq, getPc, getRet, compression, outPath>>

\* -------------------------------------------- the channel-typed response
VARIABLES
  resBody,      \* httpRes.Body: the chunks that were not yet read
  decoder,      \* the step of the decoding goroutine of getResponse
  decoded,      \* what the last dec.Decode gave: the value and the error
  reqCtxDone,   \* the request's context is cancelled
  outChanClosed,\* close(outChan) has run
  consumer,     \* the reader of the response's channel: its step
  outputs       \* the values it received from outChan, in order

responseVars == <<resBody, decoder, decoded, reqCtxDone, outChanClosed, consumer, outputs>>

serviceVars == <<mountVars, gatewayVars, getVars, responseVars>>

vars == <<repoVars, blockstoreVars, messageVars, serviceVars>>

\* a value of the datastore: a byte payload
Bytes(data) == [bytes |-> TRUE, data |-> data]
NoStore == [dk \in {} |-> Bytes(<< >>)]
NoBlock == [Key |-> << >>, Data |-> << >>]

NoMountReturn == [call |-> "none", key |-> << >>, result |-> "none", touched |-> {}]

\* no operation was made on the mount and its backing stores are empty
MountIdle ==
  /\ backing = [name \in {"blocksDS", "leveldbDS"} |-> NoStore]
  /\ mountRet = NoMountReturn

NoRequest == [handler |-> "none", method |-> "none", called |-> "none", status |-> 0]

NoDaemon == [running |-> FALSE, option |-> "unset", cfgWritable |-> FALSE, gatewayMaddr |-> FALSE]

\* no daemon runs
GatewayIdle ==
  /\ daemon = NoDaemon
  /\ served = NoRequest

NoOptions == [compress |-> FALSE, found |-> FALSE, level |-> 0, archive |-> FALSE]
NoLevel == [cmplvl |-> 0, err |-> "none"]

\* no get command runs
GetIdle ==
  /\ getReq = NoOptions
  /\ getPc = "idle"
  /\ getRet = NoLevel
  /\ compression = 0
  /\ outPath = << >>

\* nothing was decoded
NoValue == [v |-> "none", err |-> "none"]

\* no response is being read
ResponseIdle ==
  /\ resBody = << >>
  /\ decoder = "none"
  /\ decoded = NoValue
  /\ reqCtxDone = FALSE
  /\ outChanClosed = FALSE
  /\ consumer = "none"
  /\ outputs = << >>

ServiceIdle == MountIdle /\ GatewayIdle /\ GetIdle /\ ResponseIdle

NoBsReturn ==
  [thread |-> 0, call |-> "none", key |-> << >>, result |-> "none", block |-> NoBlock,
   errs |-> << >>]
NoEntry == [state |-> "empty", key |-> << >>]

\* no blockstore call is under way
PointIdle ==
  /\ stored = {}
  /\ bpc = [t \in Threads |-> "idle"]
  /\ block = [t \in Threads |-> NoBlock]
  /\ exists = [t \in Threads |-> FALSE]
  /\ hasErr = [t \in Threads |-> "nil"]
  /\ bsRet = NoBsReturn

\* AllKeysChan has not been called
KeysIdle ==
  /\ ctxDone = FALSE
  /\ leftAtCancel = {}
  /\ pending = {}
  /\ resNext = NoEntry
  /\ queryError = FALSE
  /\ queryClosed = FALSE
  /\ producer = "none"
  /\ kOut = << >>
  /\ outputClosed = FALSE
  /\ receiving = FALSE
  /\ received = << >>

\* no blockstore is built on the repository's datastore
NoBlockstore == store = NoStore /\ PointIdle /\ KeysIdle

\* a step of the repository leaves the blockstore's state alone
RepoStep(A) == A /\ UNCHANGED <<blockstoreVars, messageVars, serviceVars>>

\* a step of the point operations leaves the repository and the enumeration alone
PointStep(A) == A /\ UNCHANGED <<repoVars, keysVars, messageVars, serviceVars>>

\* ----------------------------------------------------------- the disk
FileExists(f) == f # << >>

\* configIsInitialized: the config file exists
configIsInitialized == FileExists(configFile)

\* isInitializedUnsynced: the config file and the datastore directory exist
isInitializedUnsynced == configIsInitialized /\ "datastore" \in dirs

\* strings.TrimSpace on the marker's text
IsSpace(c) == c \in {" ", "\n"}
RECURSIVE TrimLeft(_)
TrimLeft(s) == IF s # << >> /\ IsSpace(Head(s)) THEN TrimLeft(Tail(s)) ELSE s
RECURSIVE TrimRight(_)
TrimRight(s) ==
  IF s # << >> /\ IsSpace(s[Len(s)]) THEN TrimRight(SubSeq(s, 1, Len(s) - 1)) ELSE s
TrimSpace(s) == TrimLeft(TrimRight(s))

\* mfsr.RepoPath.Version: the marker's text, trimmed
Version == TrimSpace(versionFile[1])
\* mfsr.RepoPath.WriteVersion: the version and a newline
VersionText(v) == v \o <<"\n">>

\* ------------------------------------------------------------ FSRepo
\* the object newFSRepo returns: nothing open, not closed
NewFSRepo(p) ==
  [proc |-> p, closed |-> FALSE, lockfile |-> FALSE, config |-> ZeroConfig,
   leveldbDS |-> "nil", ds |-> FALSE]

NoRepo == NewFSRepo(0)

Handles == 1..Len(handles)
HandlesOf(p) == {h \in Handles : handles[h].proc = p}

\* no config update is under way
NoBefore == [file |-> << >>, config |-> ZeroConfig]

\* --------------------------------------------------------- call and return
Idle(t) == pc[t] = "idle"

\* a call that does not take packageLock
LockFreeAlways(t) == TRUE

\* packageLock.Lock() of a thread that is about to start a call
LockFree(t) == packageLock[ProcOf(t)] = 0

\* packageLock.Lock() at the start of a call
Enter(t) ==
  /\ Idle(t)
  /\ LockFree(t)

\* no call returned in the last step
NoReturn == [thread |-> 0, call |-> "none", handle |-> 0, result |-> "none"]

\* the call goes on to step next, holding packageLock
Goto(t, next) ==
  /\ pc' = [pc EXCEPT ![t] = next]
  /\ packageLock' = [packageLock EXCEPT ![ProcOf(t)] = t]
  /\ ret' = NoReturn

\* the call returns result: the deferred packageLock.Unlock() runs and the
\* call's locals are gone
Return(t, name, h, result) ==
  /\ pc' = [pc EXCEPT ![t] = "idle"]
  /\ packageLock' = [packageLock EXCEPT ![ProcOf(t)] = 0]
  /\ ret' = [thread |-> t, call |-> name, handle |-> h, result |-> result]
  /\ hnd' = [hnd EXCEPT ![t] = 0]
  /\ key' = [key EXCEPT ![t] = << >>]
  /\ r' = [r EXCEPT ![t] = NoRepo]
  /\ mapconf' = [mapconf EXCEPT ![t] = EmptyMap]
  /\ before' = [before EXCEPT ![t] = NoBefore]
  /\ updated' = [updated EXCEPT ![t] = ZeroConfig]

Init ==
  /\ \/ /\ configFile = << >>
        /\ versionFile = << >>
        /\ dirs = {}
     \/ /\ configFile = <<ForeignConfigFile>>
        /\ versionFile \in {<<m>> : m \in OldMarkers}
        /\ dirs = {"datastore", "blocks", "logs"}
  /\ fileLock = 0
  /\ packageLock = [p \in Procs |-> 0]
  /\ handles = << >>
  /\ leaked = FALSE
  /\ pc = [t \in Threads |-> "idle"]
  /\ ret = NoReturn
  /\ hnd = [t \in Threads |-> 0]
  /\ key = [t \in Threads |-> << >>]
  /\ r = [t \in Threads |-> NoRepo]
  /\ mapconf = [t \in Threads |-> EmptyMap]
  /\ before = [t \in Threads |-> NoBefore]
  /\ updated = [t \in Threads |-> ZeroConfig]
  /\ initOK = FALSE
  /\ NoBlockstore
  /\ MessageIdle
  /\ ServiceIdle

\* ---------------------------------------------------------------- Init
\* dir.Writable(dir): create the directory when it is missing, then check that
\* a file can be created in it.  It fails either before the directory exists
\* or after.
Writable(t, d, next) ==
  \E outcome \in {"ok", "mkdirFailed", "notWriteable"} :
    /\ dirs' = IF outcome = "mkdirFailed" THEN dirs ELSE dirs \cup {d}
    /\ IF outcome = "ok"
       THEN Goto(t, next) /\ UNCHANGED locals
       ELSE Return(t, "Init", 0, "IOError")

\* an Init that goes on where the path is initialized
InitEnterUnguarded(t, conf) ==
  /\ Enter(t)
  /\ Goto(t, "initConfig")
  /\ updated' = [updated EXCEPT ![t] = conf]
  /\ UNCHANGED <<disk, fileLock, handles, leaked, hnd, key, r, mapconf, before, initOK>>

\* Init, to its check of isInitializedUnsynced: a no-op on an initialized path
InitEnter(t, conf) ==
  /\ Enter(t)
  /\ IF isInitializedUnsynced
     THEN /\ Return(t, "Init", 0, "ok")
          /\ initOK' = TRUE
     ELSE /\ Goto(t, "initConfig")
          /\ updated' = [updated EXCEPT ![t] = conf]
          /\ UNCHANGED <<hnd, key, r, mapconf, before, initOK>>
  /\ UNCHANGED <<disk, fileLock, handles, leaked>>

\* initConfig: nothing to write when the config file exists
initConfig(t) ==
  /\ pc[t] = "initConfig"
  /\ Goto(t, IF configIsInitialized THEN "initLeveldb" ELSE "initConfigWrite")
  /\ UNCHANGED <<disk, fileLock, handles, leaked, locals, initOK>>

\* initConfig: serialize.WriteConfigFile(configFilename, conf)
initConfigWrite(t) ==
  /\ pc[t] = "initConfigWrite"
  /\ \E fault \in BOOLEAN :
       IF fault
       THEN Return(t, "Init", 0, "IOError") /\ UNCHANGED configFile
       ELSE /\ configFile' = <<ToMap(updated[t])>>
            /\ Goto(t, "initLeveldb")
            /\ UNCHANGED locals
  /\ UNCHANGED <<versionFile, dirs, fileLock, handles, leaked, initOK>>

\* Init: dir.Writable(leveldbPath)
InitLeveldbDir(t) ==
  /\ pc[t] = "initLeveldb"
  /\ Writable(t, "datastore", "initFlatfs")
  /\ UNCHANGED <<configFile, versionFile, fileLock, handles, leaked, initOK>>

\* Init: dir.Writable(flatfsPath)
InitFlatfsDir(t) ==
  /\ pc[t] = "initFlatfs"
  /\ Writable(t, "blocks", "initLogs")
  /\ UNCHANGED <<configFile, versionFile, fileLock, handles, leaked, initOK>>

\* Init: dir.Writable(logs)
InitLogsDir(t) ==
  /\ pc[t] = "initLogs"
  /\ Writable(t, "logs", "initVersion")
  /\ UNCHANGED <<configFile, versionFile, fileLock, handles, leaked, initOK>>

\* Init: WriteVersion(RepoVersion), and the return of success
InitWriteVersion(t) ==
  /\ pc[t] = "initVersion"
  /\ \E fault \in BOOLEAN :
       IF fault
       THEN Return(t, "Init", 0, "IOError") /\ UNCHANGED <<versionFile, initOK>>
       ELSE /\ versionFile' = <<VersionText(RepoVersion)>>
            /\ Return(t, "Init", 0, "ok")
            /\ initOK' = TRUE
  /\ UNCHANGED <<configFile, dirs, fileLock, handles, leaked>>

\* ---------------------------------------------------------------- open
\* a lockfile.Lock that never fails
LockFailsNever == FALSE

\* lockfile.Lock fails while any process, the caller included, holds the lock
LockFails == fileLock # 0

\* a deferred function that leaves the lock locked on error too
DeferredUnlockNever(t, keepLocked) == ProcOf(t)

\* a deferred function that unlocks on success too
DeferredUnlockAlways(t, keepLocked) == 0

\* the deferred function of open: unlock on error, leave it locked on success
DeferredUnlock(t, keepLocked) == IF keepLocked THEN ProcOf(t) ELSE 0

\* open fails after it acquired the file lock
OpenFails(t, result) ==
  /\ Return(t, "open", 0, result)
  /\ fileLock' = DeferredUnlock(t, FALSE)

\* a check that looks for the config file alone
checkInitializedConfigOnly(oldLocation) ==
  IF ~configIsInitialized
  THEN IF oldLocation THEN "ErrOldRepo" ELSE "ErrNoRepo"
  ELSE "nil"

\* checkInitialized: ErrNoRepo on a path that is not initialized, ErrOldRepo
\* when the old location ".go-ipfs" holds a repository
checkInitialized(oldLocation) ==
  IF ~isInitializedUnsynced
  THEN IF oldLocation THEN "ErrOldRepo" ELSE "ErrNoRepo"
  ELSE "nil"

\* open, to checkInitialized
openCheckInitialized(t) ==
  /\ Enter(t)
  /\ Len(handles) < MaxHandles
  /\ IF \A oldLocation \in BOOLEAN : checkInitialized(oldLocation) # "nil"
     THEN \E oldLocation \in BOOLEAN :
            Return(t, "open", 0, checkInitialized(oldLocation))
     ELSE /\ Goto(t, "openLock")
          /\ r' = [r EXCEPT ![t] = NewFSRepo(ProcOf(t))]
          /\ UNCHANGED <<hnd, key, mapconf, before, updated>>
  /\ UNCHANGED <<disk, fileLock, handles, leaked, initOK>>

\* an open that goes on although lockfile.Lock failed
openLockIgnoringError(t) ==
  /\ pc[t] = "openLock"
  /\ fileLock' = ProcOf(t)
  /\ r' = [r EXCEPT ![t].lockfile = TRUE]
  /\ Goto(t, "openVersion")
  /\ UNCHANGED <<disk, handles, leaked, hnd, key, mapconf, before, updated, initOK>>

\* open: r.lockfile, err = lockfile.Lock(r.path)
openLock(t) ==
  /\ pc[t] = "openLock"
  /\ IF LockFails
     THEN Return(t, "open", 0, "LockHeld") /\ UNCHANGED fileLock
     ELSE /\ fileLock' = ProcOf(t)
          /\ r' = [r EXCEPT ![t].lockfile = TRUE]
          /\ Goto(t, "openVersion")
          /\ UNCHANGED <<hnd, key, mapconf, before, updated>>
  /\ UNCHANGED <<disk, handles, leaked, initOK>>

\* a version check with its test inverted
VersionMismatchInverted == Version = RepoVersion

\* open: ver != RepoVersion
VersionMismatch == Version # RepoVersion

\* open: check version, and error out if not matching
openVersion(t) ==
  /\ pc[t] = "openVersion"
  /\ \E fault \in BOOLEAN :
       IF ~FileExists(versionFile) THEN OpenFails(t, "ErrNoVersion")
       ELSE IF fault THEN OpenFails(t, "IOError")
       ELSE IF VersionMismatch THEN OpenFails(t, "VersionMismatch")
       ELSE Goto(t, "openWritable") /\ UNCHANGED <<fileLock, locals>>
  /\ UNCHANGED <<disk, handles, leaked, initOK>>

\* open: dir.Writable(r.path)
openWritable(t) ==
  /\ pc[t] = "openWritable"
  /\ \E fault \in BOOLEAN :
       IF fault THEN OpenFails(t, "IOError")
       ELSE Goto(t, "openConfig") /\ UNCHANGED <<fileLock, locals>>
  /\ UNCHANGED <<disk, handles, leaked, initOK>>

\* openConfig: serialize.Load of the config file into r.config
openConfig(t) ==
  /\ pc[t] = "openConfig"
  /\ \E fault \in BOOLEAN :
       IF fault \/ ~FileExists(configFile) \/ ~FromMapOk(configFile[1])
       THEN OpenFails(t, "IOError")
       ELSE /\ r' = [r EXCEPT ![t].config = FromMap(configFile[1])]
            /\ Goto(t, "openDatastore")
            /\ UNCHANGED <<fileLock, hnd, key, mapconf, before, updated>>
  /\ UNCHANGED <<disk, handles, leaked, initOK>>

\* openDatastore, and the return of the open repo with the lock kept: the
\* leveldb store is opened first, the flatfs store second
openDatastore(t) ==
  /\ pc[t] = "openDatastore"
  /\ \E outcome \in {"ok", "leveldbFailed", "flatfsFailed"} :
       CASE outcome = "leveldbFailed" ->
              OpenFails(t, "ErrLevelDB") /\ UNCHANGED <<handles, leaked>>
         [] outcome = "flatfsFailed" ->
              /\ OpenFails(t, "ErrFlatfs")
              /\ leaked' = TRUE
              /\ UNCHANGED handles
         [] OTHER ->
              /\ handles' = Append(handles,
                   [r[t] EXCEPT !.leveldbDS = "open", !.ds = TRUE])
              /\ Return(t, "open", 0, "ok")
              /\ fileLock' = DeferredUnlock(t, TRUE)
              /\ UNCHANGED leaked
  /\ UNCHANGED <<disk, initOK>>

\* --------------------------------------------------------------- Close
\* a Close that does not look at r.closed
CloseEnterUnguarded(t, h) ==
  /\ Enter(t)
  /\ handles' = [handles EXCEPT ![h].leveldbDS = "closed", ![h].closed = TRUE]
  /\ Goto(t, "closeLockfile")
  /\ hnd' = [hnd EXCEPT ![t] = h]
  /\ UNCHANGED <<disk, fileLock, leaked, key, r, mapconf, before, updated, initOK>>

\* Close, to r.closed = true: "repo is closed" on a closed handle, else the
\* leveldb store is closed
CloseEnter(t, h) ==
  /\ Enter(t)
  /\ IF handles[h].closed
     THEN Return(t, "Close", h, "ClosedRepository") /\ UNCHANGED handles
     ELSE \E fault \in BOOLEAN :
            IF fault
            THEN Return(t, "Close", h, "IOError") /\ UNCHANGED handles
            ELSE /\ handles' = [handles EXCEPT ![h].leveldbDS = "closed",
                                               ![h].closed = TRUE]
                 /\ Goto(t, "closeLockfile")
                 /\ hnd' = [hnd EXCEPT ![t] = h]
                 /\ UNCHANGED <<key, r, mapconf, before, updated>>
  /\ UNCHANGED <<disk, fileLock, leaked, initOK>>

\* a Close that takes the handle back to open when closing the lockfile fails
CloseLockfileRollback(t) ==
  /\ pc[t] = "closeLockfile"
  /\ \E fault \in BOOLEAN :
       /\ fileLock' = IF fault THEN fileLock ELSE 0
       /\ handles' = [handles EXCEPT ![hnd[t]].lockfile = fault,
                                     ![hnd[t]].closed = ~fault]
       /\ Return(t, "Close", hnd[t], IF fault THEN "IOError" ELSE "ok")
  /\ UNCHANGED <<disk, leaked, initOK>>

\* Close: r.lockfile.Close() releases the file lock; when it reports an error
\* the lock may have been released or may still be held
CloseLockfile(t) ==
  /\ pc[t] = "closeLockfile"
  /\ \E fault \in BOOLEAN, released \in BOOLEAN :
       /\ ~fault => released
       /\ fileLock' = IF released THEN 0 ELSE fileLock
       /\ handles' = [handles EXCEPT ![hnd[t]].lockfile = ~released]
       /\ Return(t, "Close", hnd[t], IF fault THEN "IOError" ELSE "ok")
  /\ UNCHANGED <<disk, leaked, initOK>>

\* ---------------------------------------------------------- the config
\* Config: panics on a closed handle, else returns r.config
Config(t, h) ==
  /\ Enter(t)
  /\ Return(t, "Config", h, IF handles[h].closed THEN "panic" ELSE "ok")
  /\ UNCHANGED <<disk, fileLock, handles, leaked, initOK>>

\* SetConfig: takes packageLock and calls setConfigUnsynced
SetConfig(t, h, conf) ==
  /\ Enter(t)
  /\ Goto(t, "setConfigUnsynced")
  /\ hnd' = [hnd EXCEPT ![t] = h]
  /\ updated' = [updated EXCEPT ![t] = conf]
  /\ before' = [before EXCEPT ![t] = [file |-> configFile, config |-> handles[h].config]]
  /\ UNCHANGED <<disk, fileLock, handles, leaked, key, r, mapconf, initOK>>

\* setConfigUnsynced runs for SetConfig and, at its end, for SetConfigKey:
\* the step names tell which call it returns to
CallOf(t) ==
  IF pc[t] \in {"setKeyUnsynced", "setKeyUnsyncedWrite"} THEN "SetConfigKey" ELSE "SetConfig"

\* setConfigUnsynced: read the config from disk as a map and write the
\* updated struct values to the map
setConfigUnsyncedRead(t) ==
  /\ pc[t] \in {"setConfigUnsynced", "setKeyUnsynced"}
  /\ \E fault \in BOOLEAN :
       IF fault \/ ~FileExists(configFile)
       THEN Return(t, CallOf(t), hnd[t], "IOError")
       ELSE /\ mapconf' = [mapconf EXCEPT ![t] = Overlay(configFile[1], ToMap(updated[t]))]
            /\ Goto(t, IF CallOf(t) = "SetConfig" THEN "setConfigWrite" ELSE "setKeyUnsyncedWrite")
            /\ UNCHANGED <<hnd, key, r, updated, before>>
  /\ UNCHANGED <<disk, fileLock, handles, leaked, initOK>>

\* setConfigUnsynced: write the map to disk, then *r.config = *updated
setConfigUnsyncedWrite(t) ==
  /\ pc[t] \in {"setConfigWrite", "setKeyUnsyncedWrite"}
  /\ \E fault \in BOOLEAN :
       IF fault
       THEN Return(t, CallOf(t), hnd[t], "IOError") /\ UNCHANGED <<configFile, handles>>
       ELSE /\ configFile' = <<mapconf[t]>>
            /\ handles' = [handles EXCEPT ![hnd[t]].config = updated[t]]
            /\ Return(t, CallOf(t), hnd[t], "ok")
  /\ UNCHANGED <<versionFile, dirs, fileLock, leaked, initOK>>

\* GetConfigKey: "repo is closed" on a closed handle, else the value at the
\* key in the config file
GetConfigKey(t, h, k) ==
  /\ Enter(t)
  /\ IF handles[h].closed THEN Return(t, "GetConfigKey", h, "ClosedRepository")
     ELSE \E fault \in BOOLEAN :
            IF fault \/ ~FileExists(configFile) THEN Return(t, "GetConfigKey", h, "IOError")
            ELSE IF ~MapGetKVOk(configFile[1], k) THEN Return(t, "GetConfigKey", h, "KeyError")
            ELSE Return(t, "GetConfigKey", h, "ok")
  /\ UNCHANGED <<disk, fileLock, handles, leaked, initOK>>

\* SetConfigKey, to config.FromMap: "repo is closed" on a closed handle, else
\* the key is set in the map read from disk and the map converted
SetConfigKey(t, h, k, value) ==
  /\ Enter(t)
  /\ IF handles[h].closed THEN Return(t, "SetConfigKey", h, "ClosedRepository")
     ELSE \E fault \in BOOLEAN :
            IF fault \/ ~FileExists(configFile) THEN Return(t, "SetConfigKey", h, "IOError")
            ELSE IF ~MapSetKVOk(configFile[1], k) THEN Return(t, "SetConfigKey", h, "KeyError")
            ELSE LET m == MapSetKV(configFile[1], k, ConvertValue(value))
                 IN  IF ~FromMapOk(m) THEN Return(t, "SetConfigKey", h, "ConvertError")
                     ELSE /\ mapconf' = [mapconf EXCEPT ![t] = m]
                          /\ updated' = [updated EXCEPT ![t] = FromMap(m)]
                          /\ hnd' = [hnd EXCEPT ![t] = h]
                          /\ key' = [key EXCEPT ![t] = k]
                          /\ before' = [before EXCEPT ![t] =
                               [file |-> configFile, config |-> handles[h].config]]
                          /\ Goto(t, "setKeyWrite")
                          /\ UNCHANGED r
  /\ UNCHANGED <<disk, fileLock, handles, leaked, initOK>>

\* SetConfigKey: write the map, then call setConfigUnsynced(conf)
SetConfigKeyWrite(t) ==
  /\ pc[t] = "setKeyWrite"
  /\ \E fault \in BOOLEAN :
       IF fault
       THEN Return(t, "SetConfigKey", hnd[t], "IOError") /\ UNCHANGED configFile
       ELSE /\ configFile' = <<mapconf[t]>>
            /\ Goto(t, "setKeyUnsynced")
            /\ UNCHANGED locals
  /\ UNCHANGED <<versionFile, dirs, fileLock, handles, leaked, initOK>>

\* ------------------------------------------------------ the specification
\* The life cycle of the repository: every process may initialize, open and
\* close it and read its config.
Next ==
  \E t \in Threads :
    \/ \E conf \in Configs : RepoStep(InitEnter(t, conf))
    \/ RepoStep(initConfig(t))
    \/ RepoStep(initConfigWrite(t))
    \/ RepoStep(InitLeveldbDir(t))
    \/ RepoStep(InitFlatfsDir(t))
    \/ RepoStep(InitLogsDir(t))
    \/ RepoStep(InitWriteVersion(t))
    \/ RepoStep(openCheckInitialized(t))
    \/ RepoStep(openLock(t))
    \/ RepoStep(openVersion(t))
    \/ RepoStep(openWritable(t))
    \/ RepoStep(openConfig(t))
    \/ RepoStep(openDatastore(t))
    \/ RepoStep(CloseLockfile(t))
    \/ \E h \in HandlesOf(ProcOf(t)) :
         \/ RepoStep(CloseEnter(t, h))
         \/ RepoStep(Config(t, h))
         \/ \E k \in KeyPaths : RepoStep(GetConfigKey(t, h, k))

Spec == Init /\ [][Next]_vars

\* Init and Open on a path that starts out empty
InitFresh == Init /\ configFile = << >>

NextFresh ==
  \E t \in Threads :
    \/ \E conf \in Configs : RepoStep(InitEnter(t, conf))
    \/ RepoStep(initConfig(t))
    \/ RepoStep(initConfigWrite(t))
    \/ RepoStep(InitLeveldbDir(t))
    \/ RepoStep(InitFlatfsDir(t))
    \/ RepoStep(InitLogsDir(t))
    \/ RepoStep(InitWriteVersion(t))
    \/ RepoStep(openCheckInitialized(t))
    \/ RepoStep(openLock(t))
    \/ RepoStep(openVersion(t))
    \/ RepoStep(openWritable(t))
    \/ RepoStep(openConfig(t))
    \/ RepoStep(openDatastore(t))

SpecFresh == InitFresh /\ [][NextFresh]_vars

\* The config of a repository that process 1 has opened: the threads of
\* process 1 read and update the config of the handle, and close it.
ThreadsOf(p) == {t \in Threads : ProcOf(t) = p}

OpenedRepo ==
  /\ configFile \in {<<ForeignConfigFile>>} \cup {<<ToMap(c)>> : c \in Configs}
  /\ versionFile = <<VersionText(RepoVersion)>>
  /\ dirs = {"datastore", "blocks", "logs"}
  /\ fileLock = 1
  /\ packageLock = [p \in Procs |-> 0]
  /\ handles = <<[proc |-> 1, closed |-> FALSE, lockfile |-> TRUE,
                  config |-> FromMap(configFile[1]), leveldbDS |-> "open", ds |-> TRUE]>>
  /\ leaked = FALSE
  /\ pc = [t \in Threads |-> "idle"]
  /\ ret = NoReturn
  /\ hnd = [t \in Threads |-> 0]
  /\ key = [t \in Threads |-> << >>]
  /\ r = [t \in Threads |-> NoRepo]
  /\ mapconf = [t \in Threads |-> EmptyMap]
  /\ before = [t \in Threads |-> NoBefore]
  /\ updated = [t \in Threads |-> ZeroConfig]
  /\ initOK = TRUE

Opened == OpenedRepo /\ NoBlockstore /\ MessageIdle /\ ServiceIdle

NextConfig ==
  \E t \in ThreadsOf(1) :
    \/ RepoStep(CloseLockfile(t))
    \/ RepoStep(setConfigUnsyncedRead(t))
    \/ RepoStep(setConfigUnsyncedWrite(t))
    \/ RepoStep(SetConfigKeyWrite(t))
    \/ \E h \in HandlesOf(1) :
         \/ RepoStep(CloseEnter(t, h))
         \/ RepoStep(Config(t, h))
         \/ \E conf \in Configs : RepoStep(SetConfig(t, h, conf))
         \/ \E k \in KeyPaths :
              \/ RepoStep(GetConfigKey(t, h, k))
              \/ \E value \in Values : RepoStep(SetConfigKey(t, h, k, value))

SpecConfig == Opened /\ [][NextConfig]_vars

\* Datastore: the repo-owned datastore, read under packageLock
Datastore(t, h) ==
  /\ Enter(t)
  /\ Return(t, "Datastore", h, IF handles[h].ds THEN "ds" ELSE "nil")
  /\ UNCHANGED <<disk, fileLock, handles, leaked, initOK>>

\* Every call of the repository, by every thread of both processes, on a
\* path that is initialized or not; the config calls are made with one
\* config, one key and one value
LifecycleConfig == MkConfig(<<"b">>)
LifecycleKey == <<"Addresses", "API">>
LifecycleValue == StrV(<<"b">>)

NextLifecycle ==
  \E t \in Threads :
    \/ RepoStep(InitEnter(t, LifecycleConfig))
    \/ RepoStep(initConfig(t))
    \/ RepoStep(initConfigWrite(t))
    \/ RepoStep(InitLeveldbDir(t))
    \/ RepoStep(InitFlatfsDir(t))
    \/ RepoStep(InitLogsDir(t))
    \/ RepoStep(InitWriteVersion(t))
    \/ RepoStep(openCheckInitialized(t))
    \/ RepoStep(openLock(t))
    \/ RepoStep(openVersion(t))
    \/ RepoStep(openWritable(t))
    \/ RepoStep(openConfig(t))
    \/ RepoStep(openDatastore(t))
    \/ RepoStep(CloseLockfile(t))
    \/ RepoStep(setConfigUnsyncedRead(t))
    \/ RepoStep(setConfigUnsyncedWrite(t))
    \/ RepoStep(SetConfigKeyWrite(t))
    \/ \E h \in HandlesOf(ProcOf(t)) :
         \/ RepoStep(CloseEnter(t, h))
         \/ RepoStep(Config(t, h))
         \/ RepoStep(Datastore(t, h))
         \/ RepoStep(SetConfig(t, h, LifecycleConfig))
         \/ RepoStep(GetConfigKey(t, h, LifecycleKey))
         \/ RepoStep(SetConfigKey(t, h, LifecycleKey, LifecycleValue))

SpecLifecycle == Init /\ [][NextLifecycle]_vars

\* Remove: os.RemoveAll of the repository's directory. The call takes no
\* packageLock and looks at no handle. On success nothing of the directory is
\* left; a failed RemoveAll is taken to have removed nothing. The holder of
\* the file lock keeps its descriptor.
Remove(t) ==
  /\ Idle(t)
  /\ \E fault \in BOOLEAN :
       /\ configFile' = IF fault THEN configFile ELSE << >>
       /\ versionFile' = IF fault THEN versionFile ELSE << >>
       /\ dirs' = IF fault THEN dirs ELSE {}
       /\ ret' = [thread |-> t, call |-> "Remove", handle |-> 0,
                  result |-> IF fault THEN "IOError" ELSE "ok"]
  /\ UNCHANGED <<fileLock, pc, packageLock, hnd, key, r, mapconf, before, updated, handles, leaked, initOK>>

\* the threads of the lifecycle with Remove: one in each process
RemoveThreads == {1, 2}

\* Init, Open, Close and Config, and Remove
NextRemove ==
  \E t \in RemoveThreads :
    \/ RepoStep(InitEnter(t, LifecycleConfig))
    \/ RepoStep(initConfig(t))
    \/ RepoStep(initConfigWrite(t))
    \/ RepoStep(InitLeveldbDir(t))
    \/ RepoStep(InitFlatfsDir(t))
    \/ RepoStep(InitLogsDir(t))
    \/ RepoStep(InitWriteVersion(t))
    \/ RepoStep(openCheckInitialized(t))
    \/ RepoStep(openLock(t))
    \/ RepoStep(openVersion(t))
    \/ RepoStep(openWritable(t))
    \/ RepoStep(openConfig(t))
    \/ RepoStep(openDatastore(t))
    \/ RepoStep(CloseLockfile(t))
    \/ \E h \in HandlesOf(ProcOf(t)) :
         \/ RepoStep(CloseEnter(t, h))
         \/ RepoStep(Config(t, h))
    \/ RepoStep(Remove(t))

SpecRemove == Init /\ [][NextRemove]_vars

\* ------------------------------------------------------- the blockstore
\* BlockPrefix namespaces blockstore datastores
BlockPrefix == <<"blocks">>

\* the payloads of the blocks callers put
Payloads == {<< >>, <<"W">>, <<"E">>}

\* a multihash: the code of the hash function, the length of the digest and
\* the digest; the digest of a payload is an injective stand-in
LenChar(n) == <<"0", "1", "2", "3">>[n + 1]
Hash(data) == <<"sha2-256", LenChar(Len(data) + 1)>> \o data \o <<"#">>

\* mh.Cast: the code is known and the length is the digest's
CastOk(kk) ==
  /\ Len(kk) > 2
  /\ kk[1] = "sha2-256"
  /\ Len(kk) - 2 \in 0..3
  /\ kk[2] = LenChar(Len(kk) - 2)

\* blocks.NewBlock and blocks.NewBlockWithHash
NewBlock(data) == [Key |-> Hash(data), Data |-> data]
NewBlockWithHash(data, h) == [Key |-> h, Data |-> data]

Blocks == {NewBlock(data) : data \in Payloads}
BlockKeys == {b.Key : b \in Blocks}

\* u.Key.DsKey and u.KeyFromDsKey: a datastore key is a path of names; the
\* key is the one name of its path, and is read back as the last name
DsKey(kk) == <<kk>>
KeyFromDsKey(dk) == dk[Len(dk)]

\* the key of the wrapped datastore (dsns.Wrap(d, BlockPrefix))
Wrap(dk) == BlockPrefix \o dk

\* what the datastore holds besides blocks: under the prefix a name that is
\* no multihash, and outside the prefix an entry of another user of the
\* datastore under the name of a block
ForeignStore ==
  [dk \in {<<"blocks", <<"sha2-256", "3", "W">> >>, <<"local", Hash(<<"W">>)>>} |->
     Bytes(<<"x">>)]

\* f without key k
Unbind(f, k) == [j \in DOMAIN f \ {k} |-> f[j]]

\* the error of a datastore read of dk
DsReadError(dk, fault) ==
  IF fault THEN "IOError" ELSE IF dk \notin DOMAIN store THEN "ds.ErrNotFound" ELSE "nil"

\* a blockstore call of thread t returns; errs are the errors that the
\* datastore gave the calls it made, in order, "nil" for a call that succeeded
BsReturn(t, name, kk, result, b, errs) ==
  /\ bsRet' = [thread |-> t, call |-> name, key |-> kk, result |-> result, block |-> b,
               errs |-> errs]
  /\ bpc' = [bpc EXCEPT ![t] = "idle"]
  /\ block' = [block EXCEPT ![t] = NoBlock]
  /\ exists' = [exists EXCEPT ![t] = FALSE]
  /\ hasErr' = [hasErr EXCEPT ![t] = "nil"]

\* a Get that hands on the datastore's error as it is
GetErrorAsIs(err) == err

\* Get: the datastore's ErrNotFound becomes the blockstore's
GetError(err) == IF err = "ds.ErrNotFound" THEN "ErrNotFound" ELSE err

\* Get: the bytes at the key, as a block with the key as its hash
Get(t, kk) ==
  /\ bpc[t] = "idle"
  /\ \E fault \in BOOLEAN :
       LET dk == Wrap(DsKey(kk))
           err == DsReadError(dk, fault)
       IN  IF err # "nil" THEN BsReturn(t, "Get", kk, GetError(err), NoBlock, <<err>>)
           ELSE IF ~store[dk].bytes
                THEN BsReturn(t, "Get", kk, "ValueTypeMismatch", NoBlock, <<err>>)
           ELSE BsReturn(t, "Get", kk, "ok", NewBlockWithHash(store[dk].data, kk), <<err>>)
  /\ UNCHANGED <<store, stored>>

\* Has: bs.datastore.Has
Has(t, kk) ==
  /\ bpc[t] = "idle"
  /\ \E fault \in BOOLEAN :
       BsReturn(t, "Has", kk,
                IF fault THEN "IOError"
                ELSE IF Wrap(DsKey(kk)) \in DOMAIN store THEN "true" ELSE "false",
                NoBlock, <<IF fault THEN "IOError" ELSE "nil">>)
  /\ UNCHANGED <<store, stored>>

\* a DeleteBlock that reports success and leaves the key in the datastore
DeleteBlockKeeps(t, kk) ==
  /\ bpc[t] = "idle"
  /\ \E fault \in BOOLEAN :
       LET err == DsReadError(Wrap(DsKey(kk)), fault)
       IN  BsReturn(t, "DeleteBlock", kk, IF err = "nil" THEN "ok" ELSE err, NoBlock, <<err>>)
  /\ store' = store
  /\ stored' = {b \in stored : b.Key # kk}

\* DeleteBlock: bs.datastore.Delete
DeleteBlock(t, kk) ==
  /\ bpc[t] = "idle"
  /\ \E fault \in BOOLEAN :
       LET dk == Wrap(DsKey(kk))
           err == DsReadError(dk, fault)
       IN  /\ store' = IF err = "nil" THEN Unbind(store, dk) ELSE store
           /\ BsReturn(t, "DeleteBlock", kk, IF err = "nil" THEN "ok" ELSE err, NoBlock,
                       <<err>>)
  /\ stored' = {b \in stored : b.Key # kk}

\* a Put that never writes
PutSkipsAlways(has, err) == TRUE

\* Put: the test that ends it with "already stored"
PutSkips(has, err) == err # "nil" /\ has

\* a Put that files every block under the key of the empty block
PutDsKeyOfEmpty(b) == DsKey(Hash(<< >>))

\* Put: the datastore key of the block, k := block.Key().DsKey()
PutDsKey(b) == DsKey(b.Key)

\* Put, to its test of what bs.datastore.Has answered
Put(t, b) ==
  /\ bpc[t] = "idle"
  /\ \E fault \in BOOLEAN :
       LET has == ~fault /\ Wrap(PutDsKey(b)) \in DOMAIN store
           err == IF fault THEN "IOError" ELSE "nil"
       IN  IF PutSkips(has, err)
           THEN /\ BsReturn(t, "Put", b.Key, "ok", NoBlock, <<err>>)
                /\ stored' = stored \cup {b}
           ELSE /\ bpc' = [bpc EXCEPT ![t] = "putWrite"]
                /\ block' = [block EXCEPT ![t] = b]
                /\ exists' = [exists EXCEPT ![t] = has]
                /\ hasErr' = [hasErr EXCEPT ![t] = err]
                /\ bsRet' = NoBsReturn
                /\ UNCHANGED stored
  /\ UNCHANGED store

\* a Put that trusts what its Has found when it comes to write
PutWriteStale(t) ==
  /\ bpc[t] = "putWrite"
  /\ \E fault \in BOOLEAN :
       IF fault
       THEN /\ BsReturn(t, "Put", block[t].Key, "IOError", NoBlock, <<hasErr[t], "IOError">>)
            /\ UNCHANGED <<store, stored>>
       ELSE /\ store' = IF exists[t] THEN store
                        ELSE Bind(store, Wrap(PutDsKey(block[t])), Bytes(block[t].Data))
            /\ stored' = stored \cup {block[t]}
            /\ BsReturn(t, "Put", block[t].Key, "ok", NoBlock, <<hasErr[t], "nil">>)

\* Put: bs.datastore.Put(k, block.Data)
PutWrite(t) ==
  /\ bpc[t] = "putWrite"
  /\ \E fault \in BOOLEAN :
       IF fault
       THEN /\ BsReturn(t, "Put", block[t].Key, "IOError", NoBlock, <<hasErr[t], "IOError">>)
            /\ UNCHANGED <<store, stored>>
       ELSE /\ store' = Bind(store, Wrap(PutDsKey(block[t])), Bytes(block[t].Data))
            /\ stored' = stored \cup {block[t]}
            /\ BsReturn(t, "Put", block[t].Key, "ok", NoBlock, <<hasErr[t], "nil">>)

\* The point operations of a blockstore on the datastore of an open
\* repository: its threads get, put and delete blocks.
InitBlocks ==
  /\ OpenedRepo
  /\ configFile = <<ForeignConfigFile>>
  /\ store \in {NoStore, ForeignStore}
  /\ PointIdle
  /\ KeysIdle
  /\ MessageIdle
  /\ ServiceIdle

NextBlocks ==
  \E t \in ThreadsOf(1) :
    \/ PointStep(PutWrite(t))
    \/ \E b \in Blocks : PointStep(Put(t, b))
    \/ \E kk \in BlockKeys :
         \/ PointStep(Get(t, kk))
         \/ PointStep(Has(t, kk))
         \/ PointStep(DeleteBlock(t, kk))

SpecBlocks == InitBlocks /\ [][NextBlocks]_vars

\* ---------------------------------------------------------- AllKeysChan
\* a query with no prefix
QueryNoPrefix == << >>

\* q.Prefix = BlockPrefix.String()
QueryPrefix == BlockPrefix

HasPrefix(dk, pre) == Len(dk) >= Len(pre) /\ SubSeq(dk, 1, Len(pre)) = pre

\* the keys that are stored as blocks: the multihashes under the prefix
StoredKeys ==
  {KeyFromDsKey(dk) :
     dk \in {d \in DOMAIN store : HasPrefix(d, BlockPrefix) /\ CastOk(KeyFromDsKey(d))}}

\* the keys received so far
Received == {received[i] : i \in 1..Len(received)}

\* a step of the enumeration leaves the repository and the store alone
KeysStep(A) ==
  A /\ UNCHANGED <<repoVars, store, stored, bpc, block, exists, hasErr, messageVars,
                   serviceVars>>

\* AllKeysChan, to the start of the producer goroutine: the query for the keys
\* under the prefix, whose results are the keys stored at this time
AllKeysChan ==
  /\ producer = "none"
  /\ \E fault \in BOOLEAN :
       IF fault
       THEN /\ producer' = "failed"
            /\ bsRet' = [NoBsReturn EXCEPT !.call = "AllKeysChan", !.result = "IOError"]
            /\ UNCHANGED pending
       ELSE /\ producer' = "get"
            /\ bsRet' = [NoBsReturn EXCEPT !.call = "AllKeysChan", !.result = "ok"]
            /\ pending' = {dk \in DOMAIN store : HasPrefix(dk, QueryPrefix)}
  /\ UNCHANGED <<ctxDone, leftAtCancel, resNext, queryError, queryClosed, kOut,
                 outputClosed, receiving, received>>

\* the query offers its next result on res.Next(), in any order, or closes
\* the channel after the last; a result may carry an error
QueryWorker ==
  /\ producer \in {"get", "send"}
  /\ ~queryClosed
  /\ resNext.state = "empty"
  /\ IF pending = {}
     THEN resNext' = [state |-> "closed", key |-> << >>] /\ UNCHANGED <<pending, queryError>>
     ELSE \E dk \in pending, fault \in BOOLEAN :
            IF fault
            THEN /\ resNext' = [state |-> "error", key |-> << >>]
                 /\ pending' = {}
                 /\ queryError' = TRUE
            ELSE /\ resNext' = [state |-> "entry", key |-> dk]
                 /\ pending' = pending \ {dk}
                 /\ UNCHANGED queryError
  /\ UNCHANGED <<ctxDone, leftAtCancel, queryClosed, producer, kOut, outputClosed,
                 receiving, received, bsRet>>

\* a producer that returns without closing output
FinishLeavesOpen ==
  /\ producer' = "done"
  /\ queryClosed' = TRUE
  /\ kOut' = << >>
  /\ UNCHANGED <<ctxDone, leftAtCancel, pending, resNext, queryError, received, bsRet,
                 outputClosed, receiving>>

\* the deferred function of the producer: res.Process().Close(), close(output)
Finish ==
  /\ producer' = "done"
  /\ queryClosed' = TRUE
  /\ outputClosed' = TRUE
  /\ receiving' = FALSE
  /\ kOut' = << >>
  /\ UNCHANGED <<ctxDone, leftAtCancel, pending, resNext, queryError, received, bsRet>>

\* a get that does not look at the context
GetIgnoresDone == FALSE

\* get: case <-ctx.Done()
GetObservesDone == ctxDone

\* a send that does not look at the context
SendIgnoresDone == FALSE

\* the producer: case <-ctx.Done() beside output <- k
SendObservesDone == ctxDone

\* a producer that sends the empty key too
SkippedNever(kk) == FALSE

\* the producer: if k == "" { continue }
Skipped(kk) == kk = << >>

\* the producer's call of get, and its test of the key: the select takes any
\* case that is ready
ProducerGet ==
  /\ producer = "get"
  /\ \/ GetObservesDone /\ Finish
     \/ resNext.state \in {"closed", "error"} /\ Finish
     \/ /\ resNext.state = "entry"
        /\ LET kk == KeyFromDsKey(resNext.key)
               got == IF CastOk(kk) THEN kk ELSE << >>
           IN  /\ resNext' = NoEntry
               /\ IF Skipped(got)
                  THEN UNCHANGED <<producer, kOut>>
                  ELSE producer' = "send" /\ kOut' = got
        /\ UNCHANGED <<ctxDone, leftAtCancel, pending, queryError, queryClosed,
                       outputClosed, receiving, received, bsRet>>

\* an output channel with room: a send completes with no receiver waiting
OutputBuffered == TRUE

\* output := make(chan u.Key): a send completes when a receiver waits
OutputReady == receiving

\* the producer's send: the select takes any case that is ready
ProducerSend ==
  /\ producer = "send"
  /\ \/ SendObservesDone /\ Finish
     \/ /\ OutputReady
        /\ received' = Append(received, kOut)
        /\ receiving' = FALSE
        /\ producer' = "get"
        /\ kOut' = << >>
        /\ UNCHANGED <<ctxDone, leftAtCancel, pending, resNext, queryError, queryClosed,
                       outputClosed, bsRet>>

\* the consumer starts to receive from output
ConsumerReceive ==
  /\ producer \in {"get", "send"}
  /\ ~receiving
  /\ receiving' = TRUE
  /\ UNCHANGED <<ctxDone, leftAtCancel, pending, resNext, queryError, queryClosed,
                 producer, kOut, outputClosed, received, bsRet>>

\* the caller cancels the context
Cancel ==
  /\ ~ctxDone
  /\ producer # "done"
  /\ ctxDone' = TRUE
  /\ leftAtCancel' = StoredKeys \ Received
  /\ UNCHANGED <<pending, resNext, queryError, queryClosed, producer, kOut,
                 outputClosed, receiving, received, bsRet>>

\* the stores that Puts leave
StoreWith(base, bs) ==
  [dk \in DOMAIN base \cup {Wrap(DsKey(b.Key)) : b \in bs} |->
     IF dk \in DOMAIN base THEN base[dk]
     ELSE Bytes((CHOOSE b \in bs : Wrap(DsKey(b.Key)) = dk).Data)]
KeyStores == {StoreWith(base, bs) : base \in {NoStore, ForeignStore}, bs \in SUBSET Blocks}

\* The enumeration of the keys of a store that no one writes to.
InitKeys ==
  /\ OpenedRepo
  /\ configFile = <<ForeignConfigFile>>
  /\ store \in KeyStores
  /\ PointIdle
  /\ KeysIdle
  /\ MessageIdle
  /\ ServiceIdle

Producer == KeysStep(ProducerGet) \/ KeysStep(ProducerSend)

NextKeys ==
  \/ KeysStep(AllKeysChan)
  \/ KeysStep(QueryWorker)
  \/ KeysStep(ProducerGet)
  \/ KeysStep(ProducerSend)
  \/ KeysStep(ConsumerReceive)
  \/ KeysStep(Cancel)

\* the producer goroutine is scheduled while it can take a step
SpecKeys == InitKeys /\ [][NextKeys]_vars /\ WF_vars(Producer)

\* and so is the query, and the consumer goes on receiving
SpecKeysConsumed ==
  /\ InitKeys /\ [][NextKeys]_vars
  /\ WF_vars(Producer)
  /\ WF_vars(KeysStep(QueryWorker))
  /\ WF_vars(KeysStep(ConsumerReceive))

\* ------------------------------------------------ getResponse's channel
\* the chunks of a response body: values, and a chunk that does not decode
Chunks == {"x", "y", "garbage"}
MaxChunks == 2
RECURSIVE Bodies(_)
Bodies(n) ==
  IF n = 0 THEN {<< >>}
  ELSE Bodies(n - 1) \cup {Append(b, ch) : b \in {bb \in Bodies(n - 1) : Len(bb) = n - 1}, ch \in Chunks}

ResponseStep(A) ==
  A /\ UNCHANGED <<repoVars, blockstoreVars, messageVars, mountVars, gatewayVars, getVars>>

\* getResponse with the channel header set: outChan := make(chan interface{}),
\* the goroutine is started and the channel is the response's output
GetResponse(body) ==
  /\ decoder = "none"
  /\ resBody' = body
  /\ decoder' = "decode"
  /\ consumer' = "ranging"
  /\ UNCHANGED <<decoded, reqCtxDone, outChanClosed, outputs>>

\* dec.Decode, and the test of its error: the end of the body is io.EOF, a
\* chunk that does not decode or a failed read is another error, on which the
\* goroutine prints the error and returns
Decode ==
  /\ decoder = "decode"
  /\ \E fault \in BOOLEAN :
       LET err == IF fault THEN "error"
                  ELSE IF resBody = << >> THEN "EOF"
                  ELSE IF Head(resBody) = "garbage" THEN "error" ELSE "nil"
       IN  /\ decoded' = [v |-> IF err = "nil" THEN Head(resBody) ELSE "none", err |-> err]
           /\ resBody' = IF err = "nil" THEN Tail(resBody) ELSE resBody
           /\ IF err \notin {"nil", "EOF"}
              THEN /\ decoder' = "returned"
                   /\ UNCHANGED outChanClosed
              ELSE /\ decoder' = "select"
                   /\ UNCHANGED outChanClosed
  /\ UNCHANGED <<reqCtxDone, consumer, outputs>>

\* the select on ctx.Done() with a default, and the test for io.EOF
SelectDone ==
  /\ decoder = "select"
  /\ IF reqCtxDone \/ decoded.err = "EOF"
     THEN decoder' = "returned" /\ outChanClosed' = TRUE
     ELSE decoder' = "send" /\ UNCHANGED outChanClosed
  /\ UNCHANGED <<resBody, decoded, reqCtxDone, consumer, outputs>>

\* outChan <- v: the send completes when the consumer receives
SendValue ==
  /\ decoder = "send"
  /\ consumer = "receiving"
  /\ outputs' = Append(outputs, decoded.v)
  /\ consumer' = "ranging"
  /\ decoder' = "decode"
  /\ UNCHANGED <<resBody, decoded, reqCtxDone, outChanClosed>>

\* the consumer ranges over the channel: it waits to receive
ConsumerWaits ==
  /\ consumer = "ranging"
  /\ consumer' = "receiving"
  /\ UNCHANGED <<resBody, decoder, decoded, reqCtxDone, outChanClosed, outputs>>

\* the range ends when the channel is closed
ConsumerEnds ==
  /\ consumer \in {"ranging", "receiving"}
  /\ outChanClosed
  /\ consumer' = "finished"
  /\ UNCHANGED <<resBody, decoder, decoded, reqCtxDone, outChanClosed, outputs>>

\* a consumer that stops reading once the context is cancelled
ConsumerLeaves ==
  /\ consumer = "ranging"
  /\ reqCtxDone
  /\ consumer' = "gone"
  /\ UNCHANGED <<resBody, decoder, decoded, reqCtxDone, outChanClosed, outputs>>

\* the request's context is cancelled
CancelRequest ==
  /\ decoder # "none"
  /\ ~reqCtxDone
  /\ reqCtxDone' = TRUE
  /\ UNCHANGED <<resBody, decoder, decoded, outChanClosed, consumer, outputs>>

\* A command with a channel-typed response is run against an API server.
InitResponse ==
  /\ OpenedRepo
  /\ configFile = <<ForeignConfigFile>>
  /\ NoBlockstore
  /\ MessageIdle
  /\ ServiceIdle

NextResponse ==
  \/ \E body \in Bodies(MaxChunks) : ResponseStep(GetResponse(body))
  \/ ResponseStep(Decode)
  \/ ResponseStep(SelectDone)
  \/ ResponseStep(SendValue)
  \/ ResponseStep(ConsumerWaits)
  \/ ResponseStep(ConsumerEnds)
  \/ ResponseStep(ConsumerLeaves)
  \/ ResponseStep(CancelRequest)

SpecResponse == InitResponse /\ [][NextResponse]_vars

\* -------------------------------------------------- the exchange message
\* the keys and priorities callers pass to AddEntry, the blocks to AddBlock
MsgKeys == {<<"M">>, <<"B">>, Hash(<<"W">>)}
Priorities == {1, 2}
MsgBlocks == {NewBlock(<<"W">>), NewBlock(<<"E">>)}

\* a want-list entry
Entry(kk, priority, cancel) == [Key |-> kk, Priority |-> priority, Cancel |-> cancel]

\* the accessors
Wantlist(m) == m.wantlist
BlocksOf(m) == m.blocks

\* the places of key kk in a list of entries or of blocks
Places(list, kk) == {i \in 1..Len(list) : list[i].Key = kk}

\* an addEntry that appends whatever the want-list holds
addEntryAppend(m, kk, priority, cancel) ==
  [m EXCEPT !.wantlist = Append(@, Entry(kk, priority, cancel))]

\* addEntry: upsert into the want-list
addEntry(m, kk, priority, cancel) ==
  IF Places(m.wantlist, kk) # {}
  THEN [m EXCEPT !.wantlist =
          [i \in 1..Len(@) |-> IF @[i].Key = kk THEN Entry(kk, priority, cancel) ELSE @[i]]]
  ELSE [m EXCEPT !.wantlist = Append(@, Entry(kk, priority, cancel))]

\* an addBlock that appends whatever the block list holds
addBlockAppend(m, b) == [m EXCEPT !.blocks = Append(@, b)]

\* addBlock: one block for a key
addBlock(m, b) ==
  IF Places(m.blocks, b.Key) # {} THEN m ELSE [m EXCEPT !.blocks = Append(@, b)]

\* a record of the structured message that carries no priority
PbEntryNoPriority(e) ==
  [tag |-> "entry", key |-> e.Key, priority |-> 0, cancel |-> e.Cancel, data |-> << >>]

\* the records of the structured message: an entry carries key, priority and
\* cancel, a block carries its bytes and not its key
PbEntry(e) ==
  [tag |-> "entry", key |-> e.Key, priority |-> e.Priority, cancel |-> e.Cancel,
   data |-> << >>]
PbBlock(b) ==
  [tag |-> "block", key |-> << >>, priority |-> 0, cancel |-> FALSE, data |-> b.Data]

\* ToProto: the structured copy of the message
ToProto(m) ==
  [i \in 1..Len(m.wantlist) |-> PbEntry(m.wantlist[i])]
    \o [i \in 1..Len(m.blocks) |-> PbBlock(m.blocks[i])]

\* newMessageFromProto: the entries are added as they are, the blocks are
\* made anew from their bytes
RECURSIVE FromRecords(_, _)
FromRecords(m, recs) ==
  IF recs = << >> THEN m
  ELSE LET rec == Head(recs)
           next == IF rec.tag = "entry"
                   THEN addEntry(m, rec.key, rec.priority, rec.cancel)
                   ELSE addBlock(m, NewBlock(rec.data))
       IN  FromRecords(next, Tail(recs))
\* a newMessageFromProto that takes the entries and leaves the blocks
newMessageFromProtoEntriesOnly(pbm) ==
  FromRecords(New, SelectSeq(pbm, LAMBDA rec : rec.tag = "entry"))

newMessageFromProto(pbm) == FromRecords(New, pbm)

\* the orders in which the records of a list may be written
Orders(list) ==
  {[i \in 1..Len(list) |-> list[f[i]]] :
     f \in {g \in [1..Len(list) -> 1..Len(list)] : \A i, j \in 1..Len(list) : g[i] = g[j] => i = j}}

\* the frame of ToNet: the length of the structured message, then the message
Frame(pbm) == <<Len(pbm)>> \o pbm

\* FromNet's reading of a frame
FrameOk(frame) == frame # << >> /\ frame[1] = Len(frame) - 1
Unframe(frame) == Tail(frame)

\* a structured message that is a view of the live message
SnapshotFollows(snap, m) == IF snap = << >> THEN snap ELSE <<ToProto(m)>>

\* a structured message obtained earlier, once the live message has become
\* m: ToProto made new records, the message's later growth is not in them
SnapshotAfter(snap, m) == snap

\* AddEntry(key, priority)
AddEntry(kk, priority) ==
  /\ wire = << >>
  /\ msg' = addEntry(msg, kk, priority, FALSE)
  /\ lastAdded' = Bind(lastAdded, kk, priority)
  /\ readded' = [readded EXCEPT !.entry = @ \/ kk \in DOMAIN lastAdded]
  /\ snapshot' = SnapshotAfter(snapshot, msg')
  /\ msgRet' = "none"
  /\ UNCHANGED <<addedBlocks, wire, copied, built>>

\* AddBlock(block)
AddBlock(b) ==
  /\ wire = << >>
  /\ msg' = addBlock(msg, b)
  /\ addedBlocks' = addedBlocks \cup {b.Key}
  /\ readded' = [readded EXCEPT !.block = @ \/ b.Key \in addedBlocks]
  /\ snapshot' = SnapshotAfter(snapshot, msg')
  /\ msgRet' = "none"
  /\ UNCHANGED <<lastAdded, wire, copied, built>>

\* ToNet(writer): the message is written once, its entries and its blocks
\* in any order
ToNet ==
  /\ wire = << >>
  /\ \E fault \in BOOLEAN :
       IF fault
       THEN msgRet' = "WriteError" /\ UNCHANGED wire
       ELSE /\ \E pbm \in Orders(ToProto(msg)) : wire' = <<Frame(pbm)>>
            /\ msgRet' = "ok"
  /\ UNCHANGED <<msg, lastAdded, addedBlocks, readded, copied, snapshot, built>>

\* FromNet(reader)
FromNet ==
  /\ wire # << >>
  /\ copied = << >>
  /\ IF FrameOk(wire[1])
     THEN /\ copied' = <<newMessageFromProto(Unframe(wire[1]))>>
          /\ msgRet' = "read"
     ELSE /\ msgRet' = "DecodeError"
          /\ UNCHANGED copied
  /\ UNCHANGED <<msg, lastAdded, addedBlocks, readded, wire, snapshot, built>>

\* m.ToProto(): the caller keeps the structured message
Snapshot ==
  /\ wire = << >>
  /\ snapshot' = <<ToProto(msg)>>
  /\ built' = << >>
  /\ msgRet' = "snapshot"
  /\ UNCHANGED <<msg, lastAdded, addedBlocks, readded, wire, copied>>

\* the structured messages a caller makes by hand: entries that carry a key
\* and nothing else, a key perhaps twice
HandMade ==
  {[i \in 1..Len(ks) |-> PbEntry(Entry(ks[i], 0, FALSE))] :
     ks \in UNION {[1..n -> MsgKeys] : n \in 1..2}}

\* a structured message made by hand
Structured(pbm) ==
  /\ wire = << >>
  /\ snapshot' = <<pbm>>
  /\ built' = << >>
  /\ msgRet' = "structured"
  /\ UNCHANGED <<msg, lastAdded, addedBlocks, readded, wire, copied>>

\* newMessageFromProto(pbm) on the structured message at hand
FromProto ==
  /\ snapshot # << >>
  /\ built = << >>
  /\ built' = <<newMessageFromProto(snapshot[1])>>
  /\ msgRet' = "built"
  /\ UNCHANGED <<msg, lastAdded, addedBlocks, readded, wire, copied, snapshot>>

\* ------------------------------------------------- the composed datastore
\* the mount table of openDatastore: the flatfs store under "/blocks", the
\* leveldb store under "/"
Mounts ==
  <<[Prefix |-> <<"blocks">>, Datastore |-> "blocksDS"],
    [Prefix |-> << >>, Datastore |-> "leveldbDS"]>>

\* the mounts whose prefix is the key or an ancestor of the key
Matching(dk) == {i \in DOMAIN Mounts : HasPrefix(dk, Mounts[i].Prefix)}

\* a lookup that takes the mount with the shortest matching prefix
lookupShortest(dk) ==
  CHOOSE i \in Matching(dk) :
    \A j \in Matching(dk) : Len(Mounts[j].Prefix) >= Len(Mounts[i].Prefix)

\* the mount a key routes to: the one with the longest matching prefix
lookup(dk) ==
  CHOOSE i \in Matching(dk) :
    \A j \in Matching(dk) : Len(Mounts[j].Prefix) <= Len(Mounts[i].Prefix)

\* the key that the backing store of mount i sees: the key past the prefix
Strip(dk, i) == SubSeq(dk, Len(Mounts[i].Prefix) + 1, Len(dk))

\* the keys callers use on the mount: the blockstore's keys, the prefix
\* itself, a key of another user, and that key under the prefix
MountKeys ==
  {Wrap(DsKey(kk)) : kk \in {Hash(<<"W">>), Hash(<<"E">>)}}
    \cup {<<"blocks">>, <<"local", Hash(<<"W">>)>>, Wrap(<<"local", Hash(<<"W">>)>>)}
MountValues == {Bytes(<<"x">>), Bytes(<<"y">>)}

\* a point operation on the mount returns
MountReturn(name, dk, result) ==
  mountRet' = [call |-> name, key |-> dk, result |-> result,
               touched |-> {Mounts[lookup(dk)].Datastore}]

\* the four point operations: each is handed to the store of the lookup
MountPut(dk, value) ==
  LET i == lookup(dk)
  IN  /\ backing' = [backing EXCEPT ![Mounts[i].Datastore] = Bind(@, Strip(dk, i), value)]
      /\ MountReturn("Put", dk, "ok")

MountGet(dk) ==
  LET i == lookup(dk)
      held == backing[Mounts[i].Datastore]
  IN  /\ MountReturn("Get", dk,
                     IF Strip(dk, i) \in DOMAIN held THEN held[Strip(dk, i)].data
                     ELSE "ds.ErrNotFound")
      /\ UNCHANGED backing

MountHas(dk) ==
  LET i == lookup(dk)
  IN  /\ MountReturn("Has", dk,
                     IF Strip(dk, i) \in DOMAIN backing[Mounts[i].Datastore]
                     THEN "true" ELSE "false")
      /\ UNCHANGED backing

MountDelete(dk) ==
  LET i == lookup(dk)
      held == backing[Mounts[i].Datastore]
  IN  IF Strip(dk, i) \in DOMAIN held
      THEN /\ backing' = [backing EXCEPT ![Mounts[i].Datastore] = Unbind(@, Strip(dk, i))]
           /\ MountReturn("Delete", dk, "ok")
      ELSE /\ MountReturn("Delete", dk, "ds.ErrNotFound")
           /\ UNCHANGED backing

\* a step of the mount leaves everything else alone
MountStep(A) ==
  A /\ UNCHANGED <<repoVars, blockstoreVars, messageVars, gatewayVars, getVars,
                   responseVars>>

\* The datastore of an open repository: callers get, put, test and delete
\* keys through the mount.
InitMount ==
  /\ OpenedRepo
  /\ configFile = <<ForeignConfigFile>>
  /\ NoBlockstore
  /\ MessageIdle
  /\ ServiceIdle

NextMount ==
  \E dk \in MountKeys :
    \/ \E value \in MountValues : MountStep(MountPut(dk, value))
    \/ MountStep(MountGet(dk))
    \/ MountStep(MountHas(dk))
    \/ MountStep(MountDelete(dk))

SpecMount == InitMount /\ [][NextMount]_vars

\* ------------------------------------------------------ the HTTP gateway
\* the methods of the requests
Methods == {"GET", "HEAD", "POST", "PUT", "DELETE", "OPTIONS", "post"}

\* the status codes
StatusMethodNotAllowed == 405
StatusBadRequest == 400

\* the daemon's writable: the option when it was given, else the config's
\* Gateway.Writable
DaemonWritable(option, cfgWritable) == IF option = "unset" THEN cfgWritable ELSE option = "true"

\* the handlers the daemon makes: the gateway's, when the config has a
\* gateway address, and the one of the API server, which is writable
DaemonHandlers(option, cfgWritable, gatewayMaddr) ==
  [h \in (IF gatewayMaddr THEN {"gateway"} ELSE {}) \cup {"api"} |->
     IF h = "api" THEN TRUE ELSE DaemonWritable(option, cfgWritable)]

\* per handler of the running daemon: its config.Writable
gwConfig ==
  IF daemon.running
  THEN DaemonHandlers(daemon.option, daemon.cfgWritable, daemon.gatewayMaddr)
  ELSE [h \in {} |-> FALSE]

\* a test that hands every POST, PUT and DELETE to its handler
MutatesAlways(writable, method, name) == method = name

\* ServeHTTP: i.config.Writable && r.Method == name
Mutates(writable, method, name) == writable /\ method = name

\* ServeHTTP: the handler it calls, "none" when it answers itself
Called(writable, method) ==
  IF Mutates(writable, method, "POST") THEN "postHandler"
  ELSE IF Mutates(writable, method, "PUT") THEN "putHandler"
  ELSE IF Mutates(writable, method, "DELETE") THEN "deleteHandler"
  ELSE IF method = "GET" THEN "getOrHeadHandler"
  ELSE IF method = "HEAD" THEN "getOrHeadHandler"
  ELSE "none"

\* ServeHTTP on handler h
ServeHTTP(h, method) ==
  LET writable == gwConfig[h]
      called == Called(writable, method)
  IN  /\ served' = [handler |-> h, method |-> method, called |-> called,
                    status |-> IF called # "none" THEN 0
                               ELSE IF ~writable THEN StatusMethodNotAllowed
                               ELSE StatusBadRequest]
      /\ UNCHANGED daemon

\* a step of the gateway leaves everything else alone
GatewayStep(A) ==
  A /\ UNCHANGED <<repoVars, blockstoreVars, messageVars, mountVars, getVars,
                   responseVars>>

\* A daemon runs on an open repository and serves requests.
InitGateway ==
  /\ OpenedRepo
  /\ configFile = <<ForeignConfigFile>>
  /\ NoBlockstore
  /\ MessageIdle
  /\ MountIdle
  /\ GetIdle
  /\ ResponseIdle
  /\ daemon \in [running : {TRUE}, option : {"unset", "true", "false"},
                  cfgWritable : BOOLEAN, gatewayMaddr : BOOLEAN]
  /\ served = NoRequest

NextGateway ==
  \E h \in DOMAIN gwConfig, method \in Methods : GatewayStep(ServeHTTP(h, method))

SpecGateway == InitGateway /\ [][NextGateway]_vars

\* ------------------------------------------------------ the get command
\* compress/gzip: NoCompression and DefaultCompression
NoCompression == 0
DefaultCompression == 0 - 1

\* the compression levels a caller may give
Levels == (0 - 1)..10

\* getCompressOptions: the level and the error
getCompressOptions(req) ==
  IF ~req.compress THEN [cmplvl |-> NoCompression, err |-> "nil"]
  ELSE IF req.compress /\ ~req.found THEN [cmplvl |-> DefaultCompression, err |-> "nil"]
  ELSE IF req.compress /\ req.found /\ (req.level < 1 \/ req.level > 9)
       THEN [cmplvl |-> NoCompression, err |-> "ErrInvalidCompressionLevel"]
  ELSE [cmplvl |-> NoCompression, err |-> "nil"]

\* the requests: the level is the zero value when the option is not given
GetRequests ==
  {[compress |-> cmprs, found |-> found, level |-> level, archive |-> archive] :
     cmprs \in BOOLEAN, found \in BOOLEAN, level \in Levels, archive \in BOOLEAN}
    \ {req \in [compress : BOOLEAN, found : {FALSE}, level : Levels \ {0}, archive : BOOLEAN] :
         TRUE}

\* a get command is called
GetCall(req) ==
  /\ getPc = "idle"
  /\ getReq' = req
  /\ getPc' = "PreRun"
  /\ getRet' = NoLevel
  /\ compression' = 0
  /\ outPath' = << >>

\* PreRun: the options are checked
GetPreRun ==
  /\ getPc = "PreRun"
  /\ getRet' = getCompressOptions(getReq)
  /\ getPc' = IF getRet'.err # "nil" THEN "idle" ELSE "Run"
  /\ UNCHANGED <<getReq, compression, outPath>>

\* Run: get(node, path, cmplvl)
GetRun ==
  /\ getPc = "Run"
  /\ getRet' = getCompressOptions(getReq)
  /\ IF getRet'.err # "nil"
     THEN getPc' = "idle" /\ UNCHANGED compression
     ELSE getPc' = "PostRun" /\ compression' = getRet'.cmplvl
  /\ UNCHANGED <<getReq, outPath>>

\* PostRun: the output path of an archive
GetPostRun ==
  /\ getPc = "PostRun"
  /\ getRet' = getCompressOptions(getReq)
  /\ outPath' = IF getRet'.err = "nil" /\ getReq.archive
                THEN <<".tar">> \o (IF getRet'.cmplvl # NoCompression THEN <<".gz">> ELSE << >>)
                ELSE << >>
  /\ getPc' = "idle"
  /\ UNCHANGED <<getReq, compression>>

\* a step of the get command leaves everything else alone
GetStep(A) ==
  A /\ UNCHANGED <<repoVars, blockstoreVars, messageVars, mountVars, gatewayVars,
                   responseVars>>

\* The get command is run with every choice of its options.
InitGet ==
  /\ OpenedRepo
  /\ configFile = <<ForeignConfigFile>>
  /\ NoBlockstore
  /\ MessageIdle
  /\ ServiceIdle

NextGet ==
  \/ \E req \in GetRequests : GetStep(GetCall(req))
  \/ GetStep(GetPreRun)
  \/ GetStep(GetRun)
  \/ GetStep(GetPostRun)

SpecGet == InitGet /\ [][NextGet]_vars

\* a step of the message leaves the repository and the blockstore alone
MessageStep(A) == A /\ UNCHANGED <<repoVars, blockstoreVars, serviceVars>>

\* A message is built, written to the net and read back.
InitMessage ==
  /\ OpenedRepo
  /\ configFile = <<ForeignConfigFile>>
  /\ NoBlockstore
  /\ MessageIdle
  /\ ServiceIdle

NextMessage ==
  \/ \E kk \in MsgKeys, priority \in Priorities : MessageStep(AddEntry(kk, priority))
  \/ \E b \in MsgBlocks : MessageStep(AddBlock(b))
  \/ MessageStep(ToNet)
  \/ MessageStep(FromNet)

SpecMessage == InitMessage /\ [][NextMessage]_vars

\* A message is built; its structured form is taken, or one is made by hand,
\* and a message is built from it.
NextProto ==
  \/ \E kk \in MsgKeys, priority \in Priorities : MessageStep(AddEntry(kk, priority))
  \/ \E b \in MsgBlocks : MessageStep(AddBlock(b))
  \/ MessageStep(Snapshot)
  \/ \E pbm \in HandMade : MessageStep(Structured(pbm))
  \/ MessageStep(FromProto)

SpecProto == InitMessage /\ [][NextProto]_vars

\* ------------------------------------------------------------ the claims
\* process p holds the repository open: open returned it a handle on which
\* Close has not run
HoldsOpen(p) == \E h \in HandlesOf(p) : ~handles[h].closed
OtherHoldsOpen(t) == \E p \in Procs \ {ProcOf(t)} : HoldsOpen(p)

\* the state and step conditions of C1's formula
C1_NeverBothOpen == \A p, q \in Procs : HoldsOpen(p) /\ HoldsOpen(q) => p = q
C1_OtherOpenFails ==
  (ret'.call = "open" /\ OtherHoldsOpen(ret'.thread))
    => (ret'.result = "LockHeld" /\ handles' = handles /\ fileLock' = fileLock)
\* C1: two processes never hold the repository open together, and while one
\* process holds it open every open of another process returns LockHeld, at
\* once and with no handle
C1_ExclusiveOpen == []C1_NeverBothOpen /\ [][C1_OtherOpenFails]_vars

\* C1's case: a process opened the repository after the Close of another,
\* whose new open is then refused with LockHeld
C1_Witness ==
  /\ ret.call = "open" /\ ret.result = "LockHeld"
  /\ \E h1, h2 \in Handles :
       /\ h1 < h2
       /\ handles[h1].proc = ProcOf(ret.thread) /\ handles[h1].closed
       /\ handles[h2].proc # ProcOf(ret.thread) /\ ~handles[h2].closed

\* the state and step conditions of C2's formula
C2_FailedOpenStep ==
  (ret'.call = "open" /\ ret'.result # "ok" /\ r[ret'.thread].lockfile)
    => fileLock' = 0
NotInitialized == {"ErrNoRepo", "ErrOldRepo"}

\* C3: once an Init on the path has returned success, an open fails only by
\* the file lock or by a storage fault.  (A marker of another version is set
\* aside: C5 speaks of it.)
C3_InitThenOpen ==
  (initOK /\ ret.call = "open") => ret.result \notin NotInitialized \cup {"ErrNoVersion"}

\* thread t makes the first step of an open, or of an Init
StartsOpen(t) == Idle(t) /\ (pc'[t] = "openLock" \/ (ret'.call = "open" /\ ret'.thread = t))
StartsInit(t) ==
  Idle(t) /\ (pc'[t] = "initConfig" \/ (ret'.call = "Init" /\ ret'.thread = t))

\* the state and step conditions of C4's formula
C4_OpenUninitializedStep ==
  \A t \in Threads :
    (StartsOpen(t) /\ ~isInitializedUnsynced)
      => /\ ret'.thread = t /\ ret'.result \in NotInitialized
         /\ handles' = handles
         /\ fileLock' = 0
\* C4: an open on a path that is not initialized returns NotInitialized at
\* once: no handle, and the file lock, which it never asked for, is free
C4_OpenUninitialized == [][C4_OpenUninitializedStep]_vars

\* C4's case: open returned ErrNoRepo on a path that has a config file and no
\* datastore directory
C4_Witness ==
  /\ ret.call = "open" /\ ret.result = "ErrNoRepo"
  /\ configIsInitialized /\ ~isInitializedUnsynced
  /\ fileLock = 0 /\ handles = << >>

\* the version marker exists and differs from the expected version
MarkerDiffers == FileExists(versionFile) /\ TrimSpace(versionFile[1]) # <<"2">>

\* the state and step conditions of C5's formula
C5_NothingOpened ==
  MarkerDiffers =>
    /\ handles = << >> /\ ~leaked
    /\ \A t \in Threads :
         /\ pc[t] \notin {"openWritable", "openConfig", "openDatastore"}
         /\ r[t].leveldbDS = "nil"
    /\ ret.call = "open" => ret.result # "ok"
C5_MismatchStep ==
  \A t \in Threads :
    (pc[t] = "openVersion" /\ pc'[t] # "openVersion" /\ MarkerDiffers)
      => /\ ret'.thread = t /\ ret'.result \in {"VersionMismatch", "IOError"}
         /\ handles' = handles
\* C5: while the marker differs no open gets past the version check, so no
\* store is opened and no handle returned, and an open that reads the marker
\* returns VersionMismatch (IOError when the read itself fails)
C5_VersionMismatch == []C5_NothingOpened /\ [][C5_MismatchStep]_vars

\* C5's case: a marker newer than the expected version, and open returned
\* VersionMismatch
C5_Witness ==
  /\ ret.call = "open" /\ ret.result = "VersionMismatch"
  /\ versionFile = <<(<<"3">>)>>

\* the state and step conditions of C6's formula
C6_CloseStep ==
  /\ (ret'.call = "Close" /\ ret'.result = "ok")
       => /\ handles'[ret'.handle].closed
          /\ handles'[ret'.handle].leveldbDS = "closed"
          /\ ~handles'[ret'.handle].lockfile
          /\ fileLock' = 0
  /\ \A t \in Threads :
       /\ (Idle(t) /\ pc'[t] = "closeLockfile") => ~handles[hnd'[t]].closed
       /\ (Idle(t) /\ ret'.thread = t /\ ret'.call = "Close" /\ handles[ret'.handle].closed)
            => /\ ret'.result = "ClosedRepository"
               /\ UNCHANGED <<disk, fileLock, handles, leaked>>
  /\ \A h \in Handles : handles[h].closed => handles'[h].closed
\* C6: a Close that returns success has closed the leveldb store and released
\* the file lock; a Close on a closed handle returns ClosedRepository at once
\* and changes nothing; a closed handle stays closed
C6_CloseOnce == [][C6_CloseStep]_vars

\* C6's case: a second Close on a handle, returning ClosedRepository, while
\* another process holds the lock that the first Close released
C6_Witness ==
  /\ ret.call = "Close" /\ ret.result = "ClosedRepository"
  /\ handles[ret.handle].closed /\ ~handles[ret.handle].lockfile
  /\ handles[ret.handle].leveldbDS = "closed"
  /\ fileLock \notin {0, ProcOf(ret.thread)}

\* the state and step conditions of C7's formula
C7_InitStep ==
  \A t \in Threads :
    (StartsInit(t) /\ isInitializedUnsynced)
      => /\ ret'.thread = t /\ ret'.result = "ok"
         /\ UNCHANGED <<disk, fileLock, handles>>
\* C7: an Init on an initialized path returns success at once and leaves the
\* config file, the version marker and the directories as they are
C7_InitIdempotent == [][C7_InitStep]_vars

\* C7's case: Init returned success on a repository that is open and whose
\* config file is none that Init writes
C7_Witness ==
  /\ ret.call = "Init" /\ ret.result = "ok"
  /\ \E p \in Procs : HoldsOpen(p)
  /\ configFile = <<ForeignConfigFile>>

\* the steps inside SetConfig and SetConfigKey
UpdateSteps ==
  {"setConfigUnsynced", "setConfigWrite", "setKeyWrite", "setKeyUnsynced", "setKeyUnsyncedWrite"}

\* the state and step conditions of C8's formula
C8_ClosedHandleStep ==
  \A t \in Threads :
    /\ (Idle(t) /\ ret'.thread = t /\ ret'.handle # 0 /\ handles[ret'.handle].closed)
         => (ret'.result \in {"ClosedRepository", "panic"} /\ disk' = disk)
    /\ (pc[t] \in UpdateSteps /\ handles[hnd[t]].closed)
         => (disk' = disk /\ ~(ret'.thread = t /\ ret'.result = "ok"))
\* C8: a config call on a closed handle does not get past its entry, where it
\* returns ClosedRepository (Config panics with that message), and a call
\* that is under way on a closed handle neither changes the disk nor returns
\* success
C8_ClosedHandleFails == [][C8_ClosedHandleStep]_vars

\* the fields of the config file that this version of the code does not
\* know: one at the top level, one inside the known section Addresses
UnknownPaths == {<<"Extra">>, <<"Addresses", "Future">>}

\* the field at path has in the written config file the value it had
Preserved(path) ==
  (FileExists(configFile) /\ MapGetKVOk(configFile[1], path))
    => /\ MapGetKVOk(configFile'[1], path)
       /\ MapGetKV(configFile'[1], path) = MapGetKV(configFile[1], path)

\* the state and step conditions of C9's formula
C9_UnknownStep ==
  \A path \in UnknownPaths :
    Preserved(path) \/ \E t \in Threads : key[t] = path /\ pc'[t] # pc[t]
\* C9: every unknown field of the config file keeps its value in every step,
\* but for the field that the SetConfigKey under way names
C9_UnknownPreserved == [][C9_UnknownStep]_vars

\* the state and step conditions of C10's formula
C10_OneInside ==
  \A p \in Procs :
    /\ Cardinality({t \in ThreadsOf(p) : ~Idle(t)}) <= 1
    /\ \A t \in ThreadsOf(p) : ~Idle(t) => packageLock[p] = t
C10_UpdateStep ==
  \A t \in Threads :
    (pc[t] \in UpdateSteps /\ pc'[t] = pc[t])
      => (configFile' = configFile /\ handles' = handles)
\* C10: in a process at most one thread is inside a call, which then holds
\* packageLock, and while a thread is between the read and the write of an
\* update no step of another thread changes the config file or a handle
C10_Serialized == []C10_OneInside /\ [][C10_UpdateStep]_vars

\* C10's case: a thread is between the two writes of SetConfigKey, its first
\* write on disk, while another thread of its process waits to make a call
C10_Witness ==
  \E t \in Threads :
    /\ pc[t] = "setKeyUnsynced"
    /\ configFile = <<mapconf[t]>>
    /\ \E u \in ThreadsOf(ProcOf(t)) \ {t} : Idle(u)

\* C11: a Get of the key of a block that a Put stored, with no DeleteBlock of
\* the key since, returns that block, its Key and its Data, unless the
\* datastore read fails
C11_PutThenGet ==
  (bsRet.call = "Get" /\ \E b \in stored : b.Key = bsRet.key)
    => \/ bsRet.result = "IOError"
       \/ bsRet.result = "ok" /\ bsRet.block \in stored /\ bsRet.block.Key = bsRet.key

\* C11's case: Get returned the block of the empty payload, which a Put stored
C11_Witness ==
  /\ bsRet.call = "Get" /\ bsRet.result = "ok"
  /\ bsRet.block = NewBlock(<< >>)
  /\ bsRet.block \in stored

\* C12: a Get of a key that the datastore does not hold under the blocks
\* prefix returns the blockstore's ErrNotFound, not the datastore's, and no
\* block, unless the datastore read fails
C12_GetNotFound ==
  (bsRet.call = "Get" /\ Wrap(DsKey(bsRet.key)) \notin DOMAIN store)
    => (bsRet.result \in {"ErrNotFound", "IOError"} /\ bsRet.block = NoBlock)

\* C12's case: Get returned ErrNotFound for a key that the datastore holds
\* outside the blocks prefix only
C12_Witness ==
  /\ bsRet.call = "Get" /\ bsRet.result = "ErrNotFound"
  /\ <<"local", bsRet.key>> \in DOMAIN store

\* C13: a Put goes on to the datastore write only when bs.datastore.Has
\* answered that the key is absent
C13_NoRewrite == \A t \in Threads : bpc[t] = "putWrite" => ~exists[t]

\* the channel is closed and every stored key was received, each once
AllEmitted ==
  /\ outputClosed
  /\ Received = StoredKeys
  /\ Len(received) = Cardinality(StoredKeys)

\* the state conditions of C14's formula
C14_NoStrayKey == Received \subseteq StoredKeys /\ Cardinality(Received) = Len(received)
\* C14: the keys AllKeysChan emits are stored keys, none twice, and when the
\* context is not cancelled and no result of the query carries an error it
\* emits every stored key and then closes the channel
C14_AllKeysOnce ==
  /\ []C14_NoStrayKey
  /\ (producer = "get") ~> (ctxDone \/ queryError \/ AllEmitted)

\* C14's case: the channel closed after one key for each of the blocks, in a
\* datastore that holds other entries too
C14_Witness ==
  /\ AllEmitted /\ ~ctxDone /\ ~queryError
  /\ StoredKeys = BlockKeys
  /\ DOMAIN ForeignStore \subseteq DOMAIN store

\* C15: when the context is cancelled while a stored key is not yet emitted,
\* the channel closes without all the stored keys emitted
C15_StrictSubset == (outputClosed /\ leftAtCancel # {}) => Received # StoredKeys

\* C16: once the context is cancelled the producer ends, with the query and
\* the channel closed, whatever the consumer and the query do
C16_ProducerStops ==
  (ctxDone /\ producer \in {"get", "send"})
    ~> (producer = "done" /\ queryClosed /\ outputClosed)

\* C16's case: the producer ended on a cancelled context while the query had
\* further results and the consumer had received nothing
C16_Witness ==
  /\ ctxDone /\ producer = "done" /\ queryClosed /\ outputClosed
  /\ pending # {}
  /\ received = << >>

\* a name under the prefix that is no multihash is stored
InvalidStored ==
  \E dk \in DOMAIN store : HasPrefix(dk, BlockPrefix) /\ ~CastOk(KeyFromDsKey(dk))

\* the state and step conditions of C17's formula
C17_OnlyMultihashes == \A i \in 1..Len(received) : CastOk(received[i])
C17_SkipStep ==
  (/\ producer = "get" /\ resNext.state = "entry" /\ resNext' # resNext
   /\ ~CastOk(KeyFromDsKey(resNext.key)))
    => (producer' = "get" /\ received' = received /\ ~outputClosed' /\ bsRet' = bsRet)
\* C17: a key that is no multihash is never emitted, the step that reads it
\* emits nothing, reports nothing and leaves the producer running, and the
\* stored keys are all emitted although such a key is enumerated
C17_SkipsInvalid ==
  /\ []C17_OnlyMultihashes
  /\ [][C17_SkipStep]_vars
  /\ (producer = "get" /\ InvalidStored) ~> (ctxDone \/ queryError \/ AllEmitted)

\* C17's case: the producer read the name that is no multihash first, skipped
\* it, and is about to send a stored key that it read after it
C17_Witness ==
  /\ producer = "send" /\ received = << >>
  /\ InvalidStored
  /\ resNext.state = "empty"
  /\ \A dk \in pending : CastOk(KeyFromDsKey(dk))

\* the members of a list
SetOf(list) == {list[i] : i \in 1..Len(list)}

\* C18: FromNet reads every frame that ToNet wrote, and the message it
\* yields has the want-list entries and the blocks of the message written,
\* as sets
C18_RoundTrip ==
  /\ msgRet # "DecodeError"
  /\ copied # << >> =>
       /\ SetOf(Wantlist(copied[1])) = SetOf(Wantlist(msg))
       /\ SetOf(BlocksOf(copied[1])) = SetOf(BlocksOf(msg))

\* C18's case: a message of three entries and two blocks was read back, in
\* another order than the message holds them
C18_Witness ==
  /\ copied # << >> /\ copied[1] # msg
  /\ Len(Wantlist(msg)) = Cardinality(MsgKeys)
  /\ Len(BlocksOf(msg)) = Cardinality(MsgBlocks)

\* C19: the want-list holds one entry for each key that AddEntry was called
\* with, with the priority of the last call for the key, and no other entry
C19_OneEntryPerKey ==
  /\ \A kk \in DOMAIN lastAdded :
       /\ Cardinality(Places(Wantlist(msg), kk)) = 1
       /\ \A i \in Places(Wantlist(msg), kk) : Wantlist(msg)[i].Priority = lastAdded[kk]
  /\ \A i \in 1..Len(Wantlist(msg)) : Wantlist(msg)[i].Key \in DOMAIN lastAdded

\* C19's case: every key was added, one of them again with another priority
C19_Witness ==
  /\ readded.entry
  /\ DOMAIN lastAdded = MsgKeys
  /\ \E i, j \in 1..Len(Wantlist(msg)) : Wantlist(msg)[i].Priority # Wantlist(msg)[j].Priority

\* C20: the block list holds one block for each key that AddBlock was called
\* with, and no other block
C20_OneBlockPerKey ==
  /\ \A kk \in addedBlocks : Cardinality(Places(BlocksOf(msg), kk)) = 1
  /\ \A i \in 1..Len(BlocksOf(msg)) : BlocksOf(msg)[i].Key \in addedBlocks

\* C20's case: AddBlock was called again with a block that the message held
C20_Witness ==
  /\ readded.block
  /\ Len(BlocksOf(msg)) = Cardinality(addedBlocks)
  /\ addedBlocks # {}

C22_Inverse ==
  built # << >> =>
    /\ \A i \in 1..Len(snapshot[1]) :
         snapshot[1][i].tag = "entry" =>
           Places(Wantlist(built[1]), snapshot[1][i].key) # {}
    /\ snapshot[1] = ToProto(msg) =>
         /\ SetOf(Wantlist(built[1])) = SetOf(Wantlist(msg))
         /\ SetOf(BlocksOf(built[1])) = SetOf(BlocksOf(msg))

\* C22's case: a message was built from the structured form of a message of
\* three entries and two blocks
C22_Witness ==
  /\ built # << >> /\ snapshot[1] = ToProto(msg)
  /\ Len(Wantlist(msg)) = Cardinality(MsgKeys)
  /\ Len(BlocksOf(msg)) = Cardinality(MsgBlocks)

\* C23: every block that Get returns has the hash of its data as its key
C23_KeyIsHash ==
  (bsRet.call = "Get" /\ bsRet.result = "ok") => bsRet.block.Key = Hash(bsRet.block.Data)

\* C23's case: Get returned a block with data, after two blocks were put
C23_Witness ==
  /\ bsRet.call = "Get" /\ bsRet.result = "ok"
  /\ bsRet.block.Data # << >>
  /\ Cardinality(stored) > 1

\* the open instances of process p: the FSRepo objects that open returned to
\* it and that are not closed
OpenInstances(p) == {h \in HandlesOf(p) : ~handles[h].closed}

\* the state and step conditions of C24's formula
C24_AtMostOne == \A p \in Procs : Cardinality(OpenInstances(p)) <= 1
C24_NoSecond ==
  (ret'.call = "open" /\ ret'.result = "ok") => OpenInstances(ProcOf(ret'.thread)) = {}
C25_StoreOf(dk) == IF HasPrefix(dk, BlockPrefix) THEN "blocksDS" ELSE "leveldbDS"

\* the state and step conditions of C25's formula
C25_Routed ==
  mountRet.call # "none" => mountRet.touched = {C25_StoreOf(mountRet.key)}
C25_OneStore ==
  \A name \in DOMAIN backing :
    backing'[name] # backing[name] => name = C25_StoreOf(mountRet'.key)
\* C25: every point operation on the mount reaches one backing store, the
\* flatfs store for a key under the blocks prefix and the leveldb store for
\* any other key, and changes no other store
C25_LongestPrefix == []C25_Routed /\ [][C25_OneStore]_vars

\* C25's case: a key was written under the blocks prefix and a block was
\* put, and a Get of the key without the prefix finds nothing
C25_Witness ==
  /\ mountRet.call = "Get" /\ mountRet.result = "ds.ErrNotFound"
  /\ mountRet.key = <<"local", Hash(<<"W">>)>>
  /\ <<"local", Hash(<<"W">>)>> \in DOMAIN backing["blocksDS"]
  /\ DsKey(Hash(<<"W">>)) \in DOMAIN backing["blocksDS"]

\* C26: a call returns every error that the datastore gave a call it made,
\* as it is, but for the not-found of Get
C26_ErrorsSurface ==
  \A i \in 1..Len(bsRet.errs) :
    (bsRet.errs[i] # "nil" /\ ~(bsRet.call = "Get" /\ bsRet.errs[i] = "ds.ErrNotFound"))
      => bsRet.result = bsRet.errs[i]

\* the state conditions of C27's formula
C27_ReadOnly ==
  (served.handler \in DOMAIN gwConfig /\ ~gwConfig[served.handler]
     /\ served.method \in {"POST", "PUT", "DELETE"})
    => (served.called = "none" /\ served.status = StatusMethodNotAllowed)
C27_ReadServed ==
  served.method \in {"GET", "HEAD"} => served.called = "getOrHeadHandler"
\* C27: a handler that is not writable hands no POST, PUT or DELETE to a
\* mutating handler and answers it with 405, and every handler hands GET and
\* HEAD to the read handler
C27_WritableGate == C27_ReadOnly /\ C27_ReadServed

\* C27's case: the gateway's handler is not writable and answered a DELETE
C27_Witness ==
  /\ served.handler = "gateway" /\ ~gwConfig["gateway"]
  /\ served.method = "DELETE" /\ served.status = StatusMethodNotAllowed

\* C28: with compress and a level in 1..9 getCompressOptions returns the
\* level and no error, with compress and a level outside 1..9 it returns
\* ErrInvalidCompressionLevel, and without compress no compression
C28_LevelSelected ==
  getRet.err # "none" =>
    /\ (getReq.compress /\ getReq.found /\ getReq.level \in 1..9)
         => (getRet.cmplvl = getReq.level /\ getRet.err = "nil")
    /\ (getReq.compress /\ getReq.found /\ getReq.level \notin 1..9)
         => getRet.err = "ErrInvalidCompressionLevel"
    /\ ~getReq.compress => (getRet.cmplvl = NoCompression /\ getRet.err = "nil")

\* the state and step conditions of C29's formula
C29_LockWhileOpen ==
  \A h \in Handles : ~handles[h].closed => fileLock = handles[h].proc
C29_MutexFree ==
  \A t \in Threads : pc[t] = "idle" => packageLock[ProcOf(t)] # t
C29_OnlyCloseReleases ==
  \A h \in Handles :
    (handles[h].lockfile /\ fileLock' # fileLock)
      => (ret'.call = "Close" /\ ret'.handle = h)
\* C29: the process of a handle holds the file lock from open's return until
\* Close has run on the handle, only Close on the handle releases it, and no
\* thread holds packageLock between its calls
C29_LockHeld == [](C29_LockWhileOpen /\ C29_MutexFree) /\ [][C29_OnlyCloseReleases]_vars

\* C29's case: SetConfigKey returned on an open handle, after an Init, and
\* the lock is with the handle's process
C29_Witness ==
  /\ ret.call = "SetConfigKey" /\ ret.result = "ok"
  /\ ~handles[ret.handle].closed
  /\ fileLock = handles[ret.handle].proc
  /\ initOK
  /\ \A p \in Procs : packageLock[p] = 0

\* the step conditions of C30's formula: a closed handle stays closed, no
\* handle goes away or changes its process, and a handle comes from a
\* successful open and starts out open
C30_ClosedStays ==
  \A h \in Handles : handles[h].closed => (h <= Len(handles') /\ handles'[h].closed)
C30_HandlesStay ==
  /\ Len(handles') >= Len(handles)
  /\ \A h \in Handles : handles'[h].proc = handles[h].proc
C30_BornOpen ==
  Len(handles') > Len(handles)
    => /\ Len(handles') = Len(handles) + 1
       /\ ret'.call = "open" /\ ret'.result = "ok"
       /\ ~handles'[Len(handles')].closed
\* C30: Closed is terminal for a handle: no step of Init, Open, Close, Config
\* or Remove resets the closed flag of a handle, and a handle only moves from
\* open's return (Open) to Closed
C30_ClosedTerminal == [][C30_ClosedStays /\ C30_HandlesStay /\ C30_BornOpen]_vars

\* C30's case: a handle is closed, and after that the path was removed, made
\* anew by Init and opened again: the second handle is open, the first closed
C30_Witness ==
  /\ Len(handles) = 2
  /\ handles[1].closed /\ ~handles[1].lockfile
  /\ ~handles[2].closed
  /\ handles[2].config = LifecycleConfig
  /\ handles[1].config # LifecycleConfig
  /\ ret.call = "Config" /\ ret.handle = 1 /\ ret.result = "panic"

\* the conditions of C31's formula: the producer holds a key exactly while it
\* is at its send, and that key was not received; a key is received in a step
\* of the send with the consumer waiting, and is then no longer held; a result
\* of the query is taken only with no key held; and the step in which the
\* producer stops delivers nothing
C31_OneHeld ==
  /\ (producer = "send") = (kOut # << >>)
  /\ kOut # << >> => kOut \notin Received
C31_EmittedOnReceive ==
  received' # received
    => /\ receiving /\ producer = "send"
       /\ received' = Append(received, kOut)
       /\ producer' = "get" /\ kOut' = << >> /\ ~receiving'
C31_FetchAfterReceive ==
  (resNext.state = "entry" /\ resNext'.state = "empty") => (producer = "get" /\ kOut = << >>)
C31_StopBetweenItems ==
  (producer # "done" /\ producer' = "done")
    => (received' = received /\ (ctxDone \/ resNext.state \in {"closed", "error"}))
\* C31: the producer and the consumer meet on the unbuffered output: at most
\* one key is held unreceived, a key is emitted when the consumer receives it,
\* the next result is fetched only after that, and cancellation is seen only
\* at the two selects, between items
C31_Rendezvous ==
  /\ []C31_OneHeld
  /\ [][C31_EmittedOnReceive /\ C31_FetchAfterReceive /\ C31_StopBetweenItems]_vars

\* C31's case: a key was received, the producer holds the next and waits for
\* the consumer, with the next result of the query already on offer
C31_Witness ==
  /\ Len(received) >= 1
  /\ producer = "send" /\ ~receiving /\ ~ctxDone
  /\ resNext.state = "entry"

\* Put run on store st with no other call between its Has and its write: the
\* stores and results it can leave
AtomicPut(st, b) ==
  {LET has == ~faultHas /\ Wrap(PutDsKey(b)) \in DOMAIN st
       err == IF faultHas THEN "IOError" ELSE "nil"
   IN  IF PutSkips(has, err) THEN [store |-> st, result |-> "ok"]
       ELSE IF faultWrite THEN [store |-> st, result |-> "IOError"]
       ELSE [store |-> Bind(st, Wrap(PutDsKey(b)), Bytes(b.Data)), result |-> "ok"] :
     faultHas \in BOOLEAN, faultWrite \in BOOLEAN}

\* the step conditions of C32's formula: a Put that returns leaves the store
\* and the result of a Put run alone at that step, a Put that has not yet
\* returned has changed nothing, and Get, Has and DeleteBlock are one step
C32_PutAtomic ==
  \A t \in Threads :
    (bsRet'.call = "Put" /\ bsRet'.thread = t)
      => \E b \in Blocks :
           /\ b.Key = bsRet'.key
           /\ bpc[t] = "putWrite" => b = block[t]
           /\ [store |-> store', result |-> bsRet'.result] \in AtomicPut(store, b)
C32_CheckChangesNothing ==
  \A t \in Threads : bpc'[t] = "putWrite" /\ bpc[t] = "idle" => store' = store
C32_OneStep ==
  bsRet'.call \in {"Get", "Has", "DeleteBlock"} => bpc[bsRet'.thread] = "idle"
\* C32: with Puts, Gets, Has and DeleteBlocks of several threads interleaved
\* on a key, every call takes effect and gets its result in one step, as if
\* it ran alone at that step: Put's check before its write adds no outcome
C32_SingleKeyAtomic == [][C32_PutAtomic /\ C32_CheckChangesNothing /\ C32_OneStep]_vars

\* C32's case: a Put found its key stored, another thread then deleted the
\* key, and the Put is about to write
C32_Witness ==
  \E t \in Threads :
    /\ bpc[t] = "putWrite" /\ exists[t]
    /\ Wrap(DsKey(block[t].Key)) \notin DOMAIN store
    /\ bsRet.call = "DeleteBlock" /\ bsRet.result = "ok" /\ bsRet.key = block[t].Key
    /\ bsRet.thread # t

\* the conditions of C33's formula: right after a DeleteBlock that succeeded
\* the key is not in the datastore; on a key that is not there Has answers
\* false and Get fails with ErrNotFound, unless the datastore fails; a
\* DeleteBlock leaves every other key and its value; Has changes no store
C33_Gone ==
  (bsRet.call = "DeleteBlock" /\ bsRet.result = "ok")
    => Wrap(DsKey(bsRet.key)) \notin DOMAIN store
C33_AbsentAnswers ==
  \A kk \in BlockKeys :
    (Wrap(DsKey(kk)) \notin DOMAIN store /\ bsRet'.key = kk)
      => /\ bsRet'.call = "Has" => bsRet'.result \in {"false", "IOError"}
         /\ bsRet'.call = "Get" => bsRet'.result \in {"ErrNotFound", "IOError"}
C33_OthersKept ==
  bsRet'.call = "DeleteBlock"
    => \A dk \in (DOMAIN store \cup DOMAIN store') \ {Wrap(DsKey(bsRet'.key))} :
         dk \in DOMAIN store /\ dk \in DOMAIN store' /\ store'[dk] = store[dk]
C33_HasReadsOnly == bsRet'.call = "Has" => store' = store
\* C33: after a DeleteBlock of k that succeeded Has(k) is false and Get(k)
\* fails with ErrNotFound, every other key answers as before, and Has leaves
\* the store as it is
C33_DeleteFrame ==
  /\ []C33_Gone
  /\ [][C33_AbsentAnswers /\ C33_OthersKept /\ C33_HasReadsOnly]_vars

\* C33's case: a DeleteBlock of a stored block succeeded and another block is
\* still in the datastore
C33_Witness ==
  /\ bsRet.call = "DeleteBlock" /\ bsRet.result = "ok"
  /\ \E b \in stored : b.Key # bsRet.key /\ Wrap(DsKey(b.Key)) \in DOMAIN store

\* C34: on a path that started empty, whenever an Init returns success, as
\* it does on a path it finds initialized, the version marker exists and
\* holds the version of the code
C34_MarkerWhenInitialized ==
  (ret.call = "Init" /\ ret.result = "ok")
    => (FileExists(versionFile) /\ Version = RepoVersion)

\* C35: when an open has failed, no leveldb store that it opened is left open
C35_NothingLeftOpen == (ret.call = "open" /\ ret.result # "ok") => ~leaked

\* a Close of handle h is between r.closed = true and r.lockfile.Close()
C36_Closing(h) == \E t \in Threads : pc[t] = "closeLockfile" /\ hnd[t] = h
\* C36: a handle that is marked closed, with no Close at work on it, does not
\* hold the file lock
C36_ClosedHoldsNoLock ==
  \A h \in Handles : (handles[h].closed /\ ~C36_Closing(h)) => ~handles[h].lockfile

\* C37: a SetConfig or SetConfigKey that returns an error leaves the config
\* file and the config of the handle as they were when the call began
C37_ErrorChangesNothing ==
  \A t \in Threads :
    (ret'.thread = t /\ ret'.call \in {"SetConfig", "SetConfigKey"}
       /\ ret'.result # "ok" /\ before[t] # NoBefore)
      => /\ configFile' = before[t].file
         /\ handles'[ret'.handle].config = before[t].config
C37_FailedUpdateChangesNothing == [][C37_ErrorChangesNothing]_vars

\* the handle of the call that returned in the last step
C38_Handle == IF ret.call = "open" THEN Len(handles) ELSE ret.handle
\* the config of handle h is what config.FromMap makes of the config file
C38_InSync(h) == FileExists(configFile) /\ handles[h].config = FromMap(configFile[1])
\* C38: when Open, SetConfig or SetConfigKey has returned success, the config
\* of the handle is the known fields of the config file
C38_ConfigInSync ==
  (ret.result = "ok" /\ ret.call \in {"open", "SetConfig", "SetConfigKey"})
    => C38_InSync(C38_Handle)

\* the conditions of C39's formula: the producer that takes a result with
\* an error stops and closes output in that step, delivering nothing; once it
\* has stopped nothing more is received; and the call of AllKeysChan has
\* returned no error
C39_StopsAtError ==
  (producer = "get" /\ resNext.state = "error" /\ producer' # "get")
    => (producer' = "done" /\ outputClosed' /\ received' = received)
C39_NothingAfter ==
  producer = "done" => (producer' = "done" /\ outputClosed' /\ received' = received)
C39_NoErrorReported ==
  (queryError /\ producer = "done")
    => (outputClosed /\ bsRet.call = "AllKeysChan" /\ bsRet.result = "ok")
\* the block keys of store st, which a complete enumeration of st emits
C39_KeysOf(st) ==
  {KeyFromDsKey(dk) :
     dk \in {d \in DOMAIN st : HasPrefix(d, BlockPrefix) /\ CastOk(KeyFromDsKey(d))}}
\* what the consumer has after the error, the keys received and a closed
\* channel, is what the complete enumeration of some store gives
C39_LooksComplete ==
  (queryError /\ producer = "done")
    => \E st \in KeyStores : C39_KeysOf(st) = Received
\* C39: a result of the query that carries an error ends the enumeration: the
\* channel is closed, no further key is emitted and the caller is given no
\* error, so that the consumer sees what a complete enumeration could give
C39_SilentTruncation ==
  /\ [](C39_NoErrorReported /\ C39_LooksComplete)
  /\ [][C39_StopsAtError /\ C39_NothingAfter]_vars

\* C39's case: the query gave an error after a key was emitted, with no
\* cancellation: the channel is closed and a stored key was never emitted
C39_Witness ==
  /\ queryError /\ ~ctxDone
  /\ producer = "done" /\ outputClosed
  /\ Len(received) >= 1
  /\ StoredKeys \ Received # {}

\* C40: when the decoding goroutine of getResponse has stopped, outChan is
\* closed, so that a consumer that ranges over it comes to an end
C40_ClosedWhenStopped == decoder = "returned" => outChanClosed

====
